---- MODULE Spec2Model ----
(***************************************************************************)
(* Model of pytms.py: the host-side driver of a Magventure TMS stimulator. *)
(*                                                                         *)
(* Real-valued quantities (IPI, BARatio, delays, rates) are kept as        *)
(* integers in hundredths: frange() rounds every legal value to two        *)
(* decimals, so every legal value is an exact multiple of 1/Scale.         *)
(* Python indexes from 0, TLA+ sequences from 1: At(b, k) is Python's b[k].*)
(***************************************************************************)
EXTENDS Integers, Sequences, FiniteSets, TLC

VARIABLES
    tms,      \* the session object followed by Spec and SpecBasic (its slots)
    INS,      \* TMS._INS: the registered instance (0 is None), SpecReg
    objs,     \* the session objects of the process, SpecReg
    last,     \* the step just taken: <<operation, argument, exception raised>>
    wire,     \* the frames that step wrote to the transport, in order
    printed,  \* the lines that step printed (warnings)
    q         \* the inputs and result of the pure-function specification SpecQ

vars == <<tms, INS, objs, last, wire, printed, q>>

\* the parts of last; SpecReg adds the object a construction returned
lastOp == last[1]

lastArg == last[2]

lastExc == last[3]

lastRet == last[4]

\* ---------------------------------------------------------------- numbers

Scale == 100

Abs(x) == IF x < 0 THEN -x ELSE x

Min2(a, b) == IF a < b THEN a ELSE b

\* Python's a ^ b on non-negative integers
RECURSIVE BitXor(_, _)
BitXor(a, b) ==
    IF a = 0 THEN b
    ELSE IF b = 0 THEN a
    ELSE (((a % 2) + (b % 2)) % 2) + (2 * BitXor(a \div 2, b \div 2))

\* Python's (x >> i) & ((1 << n) - 1), the bit2int helper of _read
bit2int(x, i, n) == (x \div (2 ^ i)) % (2 ^ n)

\* Python's b[k] and b[i:j] on a 0-indexed sequence
Has(b, k) == k >= 0 /\ k < Len(b)

\* -1 where Python raises IndexError: every use is guarded by Has or Need
At(b, k) == IF Has(b, k) THEN b[k + 1] ELSE -1

Slice(b, i, j) == IF i >= Min2(j, Len(b)) THEN << >> ELSE SubSeq(b, i + 1, Min2(j, Len(b)))

Reverse(s) == [i \in 1 .. Len(s) |-> s[Len(s) + 1 - i]]

\* by2int of _read: int.from_bytes(b, 'big')
RECURSIVE by2int(_)
by2int(b) == IF Len(b) = 0 THEN 0 ELSE (256 * by2int(SubSeq(b, 1, Len(b) - 1))) + b[Len(b)]

\* ---------------------------------------------------------------- CRC8, frames

\* one pass of the inner loop of CRC8: if a&1: a ^= 0b100011001; a >>= 1
CRCStep(a) == (IF a % 2 = 1 THEN BitXor(a, 281) ELSE a) \div 2

\* CRC8.C8, the 256-entry table
C8 == [c \in 0 .. 255 |-> CRCStep(CRCStep(CRCStep(CRCStep(CRCStep(CRCStep(CRCStep(CRCStep(c))))))))]

RECURSIVE CRC8(_)
CRC8(u8) == IF Len(u8) = 0 THEN C8[0] ELSE C8[BitXor(CRC8(SubSeq(u8, 1, Len(u8) - 1)), u8[Len(u8)])]

IsByte(x) == x \in 0 .. 255

\* the bytes _write hands to the port for the command tuple b
Frame(b) == <<254, Len(b)>> \o b \o <<CRC8(b), 255>>

\* int2byte for one value: divmod(int(i), 256)
int2byte(u16) == <<u16 \div 256, u16 % 256>>

\* ---------------------------------------------------------------- legal value sets

\* frange(start, stop, step) with all three in hundredths
frange(start, stop, step) ==
    LET d == stop - start
        n == IF d <= 0 THEN 0 ELSE (d + step - 1) \div step
    IN  [x \in 1 .. n |-> (x - 1) * step + start]

\* range(a, b, st) of integers, its members scaled to hundredths
range(a, b, st) ==
    LET d == b - a
        n == IF d <= 0 THEN 0 ELSE (d + st - 1) \div st
    IN  [x \in 1 .. n |-> Scale * (a + (x - 1) * st)]

IPIsStandard == Reverse(frange(50, 1001, 10) \o frange(1050, 2010, 50) \o range(21, 101, 1))

\* the Twin and Dual set without its part above 100 ms
IPIsTwinShort(i0) ==
    Reverse(frange(i0 * Scale, 1001, 10) \o frange(1050, 2010, 50) \o range(21, 101, 1))

IPIsTwin(i0) ==
    Reverse(frange(i0 * Scale, 1001, 10) \o frange(1050, 2010, 50) \o range(21, 101, 1)
            \o range(110, 501, 10) \o range(550, 1001, 50) \o range(1100, 3001, 100))

IPIsTwinBi == IPIsTwin(1)

IPIsTwinMono == IPIsTwin(2)

\* the _IPIs property
IPIs(mode, waveform) ==
    IF mode \notin {"Twin", "Dual"} THEN IPIsStandard
    ELSE IF waveform = "Monophasic" THEN IPIsTwinMono ELSE IPIsTwinBi

\* frange(0.2, 5.01, 0.05), the legal BARatio values
BARatios == frange(20, 501, 5)

\* the three legal sets of the delays setter: input trigger, output trigger,
\* charge delay
DelayInputs == frange(0, 1001, 10) \o range(11, 101, 1) \o range(110, 6501, 10)

DelayOutputs == range(-100, -9, 1) \o frange(-990, 1001, 10) \o range(11, 101, 1)

ChargeDelays == range(0, 101, 10) \o range(125, 4001, 25) \o range(4050, 12001, 50)

\* RATEsOf whose fractional part stops short of L itself
RATEsOfOpen(L, H) == frange(10, L * Scale, 10) \o range(L + 1, H + 1, 1)

\* the last line of the _RATEs property for the limits L and H
RATEsOf(L, H) == frange(10, L * Scale + 1, 10) \o range(L + 1, H + 1, 1)

\* limits whose extended variant has no integer part at all
RateLimitsNoTop(Model, mode, waveform, ExRate) == IF ExRate THEN <<20, 0>> ELSE <<1, 100>>

\* the limits (L,H) the _RATEs property chooses, as <<L, H>>
RateLimits(Model, mode, waveform, ExRate) ==
    IF Model = "R30" THEN (IF ExRate THEN <<20, 30>> ELSE <<1, 30>>)
    ELSE IF Model = "R30+Option"
         THEN (IF mode \in {"Twin", "Dual"} THEN (IF ExRate THEN <<5, 0>> ELSE <<1, 5>>)
               ELSE <<1, 30>>)
    ELSE IF Model = "X100"
         THEN (IF waveform = "Biphasic Burst" THEN (IF ExRate THEN <<20, 0>> ELSE <<1, 20>>)
               ELSE IF ExRate THEN <<20, 100>> ELSE <<1, 100>>)
    ELSE IF Model = "X100+Option"
         THEN (IF waveform = "Biphasic Burst" THEN (IF ExRate THEN <<20, 0>> ELSE <<1, 20>>)
               ELSE IF mode \in {"Twin", "Dual"}
                    THEN (IF waveform = "Monophasic" THEN (IF ExRate THEN <<5, 0>> ELSE <<1, 5>>)
                          ELSE IF ExRate THEN <<20, 50>> ELSE <<1, 50>>)
               ELSE IF ExRate THEN <<20, 100>> ELSE <<1, 100>>)
    ELSE <<1, 100>>

\* the _RATEs property
RATEs(Model, mode, waveform, ExRate) ==
    RATEsOf(RateLimits(Model, mode, waveform, ExRate)[1], RateLimits(Model, mode, waveform, ExRate)[2])

\* the legal sets of the train setters PulsesInTrain and ITI
PulsesInTrainCounts == range(1, 1001, 1) \o range(1100, 2001, 100)

ITIs == frange(10, 30001, 10)

\* the legal sets of the train setters NumberOfTrains, RampUp, RampUpTrains
NumbersOfTrains == range(1, 501, 1)

RampUps == frange(70, 101, 5)

RampUpTrainCounts == range(1, 11, 1)

\* the same search with the key x[1]-val, its abs() left out
RECURSIVE ArgMinSigned(_, _, _, _)
ArgMinSigned(val, vals, lo, hi) ==
    IF lo >= hi THEN lo
    ELSE LET mid == (lo + hi) \div 2
             a   == ArgMinSigned(val, vals, lo, mid)
             b   == ArgMinSigned(val, vals, mid + 1, hi)
         IN  IF vals[b] - val < vals[a] - val THEN b ELSE a

\* min(enumerate(vals), key=...) of closestVal over the indexes lo..hi: the
\* first index whose member is nearest to val (a later member replaces an
\* earlier one only when it is strictly nearer, as min() does)
RECURSIVE ArgMin(_, _, _, _)
ArgMin(val, vals, lo, hi) ==
    IF lo >= hi THEN lo
    ELSE LET mid == (lo + hi) \div 2
             a   == ArgMin(val, vals, lo, mid)
             b   == ArgMin(val, vals, mid + 1, hi)
         IN  IF Abs(vals[b] - val) < Abs(vals[a] - val) THEN b ELSE a

\* closestVal that never looks at the last member of vals
closestValShort(val, vals) ==
    LET i == ArgMin(val, vals, 1, Len(vals) - 1)
    IN  [val |-> vals[i], num |-> Abs(vals[i] - val), den |-> IF val # 0 THEN Abs(val) ELSE Scale]

\* closestVal: the first member at minimal distance, and the deviation as the
\* fraction num/den (|member - val| / |val|, or |member - val| itself when val = 0)
closestVal(val, vals) ==
    LET i == ArgMin(val, vals, 1, Len(vals))
    IN  [val |-> vals[i], num |-> Abs(vals[i] - val), den |-> IF val # 0 THEN Abs(val) ELSE Scale]

\* dev > 0.001
Deviates(c) == c.num * 1000 > c.den

\* ---------------------------------------------------------------- enumerations

MODELs == <<"R30", "X100", "R30+Option", "X100+Option", "R30+Option+Mono", "MST">>

TCs == <<"Sequence", "External Trig", "Ext Seq. Start", "Ext Seq. Cont">>

PAGEs ==
    (1 :> "Main") @@ (2 :> "Timing") @@ (3 :> "Trig") @@ (4 :> "Config") @@ (6 :> "Download")
    @@ (7 :> "Protocol") @@ (8 :> "MEP") @@ (13 :> "Service") @@ (15 :> "Treatment")
    @@ (16 :> "Treat Select") @@ (17 :> "Service2") @@ (19 :> "Calculator")

\* the local tuple WvForms of _read
WvForms == <<"Monophasic", "Biphasic", "Halfsine", "Biphasic Burst">>

\* the _MODEs property
MODEs(Model) ==
    IF Model \in {"R30", "X100"} THEN (0 :> "Standard")
    ELSE IF Model = "R30+Option" THEN (0 :> "Standard") @@ (2 :> "Twin") @@ (3 :> "Dual")
    ELSE (0 :> "Standard") @@ (1 :> "Power") @@ (2 :> "Twin") @@ (3 :> "Dual")

\* the _curDirs property
curDirs(Model) ==
    IF Model \in {"R30", "R30+Option"} THEN (0 :> "Normal")
    ELSE (0 :> "Normal") @@ (1 :> "Reverse")

\* the _wvForms property
wvForms(Model) ==
    IF Model = "R30" THEN (1 :> "Biphasic")
    ELSE IF Model = "R30+Option" THEN (0 :> "Monophasic") @@ (1 :> "Biphasic")
    ELSE IF Model = "X100" THEN (0 :> "Monophasic") @@ (1 :> "Biphasic") @@ (3 :> "Biphasic Burst")
    ELSE (0 :> "Monophasic") @@ (1 :> "Biphasic") @@ (2 :> "Halfsine") @@ (3 :> "Biphasic Burst")

\* key(D, val): the key of val in the dict D, or -1
key(D, val) ==
    IF \E k \in DOMAIN D : D[k] = val THEN CHOOSE k \in DOMAIN D : D[k] = val ELSE -1

\* tuple.index(val) for a member val
index(t, val) == (CHOOSE i \in 1 .. Len(t) : t[i] = val) - 1

\* ---------------------------------------------------------------- the session object

\* a Python number: an int, or a float of the same value (60 and 60.0)
PyInt(v) == [int |-> TRUE, v |-> v]

PyFloat(v) == [int |-> FALSE, v |-> v]

\* the byte a number gives inside bytes(...); a float gives none (TypeError)
ByteOf(n) == IF n.int THEN n.v ELSE -1

\* trainParam.__init__
trainParam ==
    [TimingControl |-> "Sequence", RepRate |-> 100, PulsesInTrain |-> 5, NumberOfTrains |-> 3,
     ITI |-> 100, PriorWarningSound |-> TRUE, RampUp |-> 100, RampUpTrains |-> 10]

\* the slots as TMS.__init__ sets them, before discovery: no port, no worker
\* thread. -1 stands for a key that a dict does not hold yet.
NewSession ==
    [ExRate |-> FALSE, enabled |-> FALSE, amplitude |-> <<PyInt(0), PyInt(0)>>, didt |-> <<0, 0>>,
     temperature |-> 21,
     MEP |-> [maxAmplitude |-> -1, minAmplitude |-> -1, maxTime |-> -1],
     info |-> [CoilType |-> "", SerialNo |-> -1, stimCount |-> -1],
     filename |-> "", Model |-> "X100", mode |-> "Standard", currentDirection |-> "Normal",
     waveform |-> "Biphasic", BARatio |-> 100, burstPulses |-> 2, IPI |-> 1000,
     delays |-> <<0, 0, 0>>, page |-> "Main", CoilTypeDisplay |-> TRUE, trainRunning |-> FALSE,
     train |-> trainParam, port |-> "none", worker |-> FALSE]

\* The outcome of running a handler on the session s: the session after it, the
\* frames it wrote, the lines it printed and the exception that ended it.
R(s) == [s |-> s, out |-> << >>, printed |-> << >>, exc |-> "none"]

Live(r) == r.exc = "none"

Raise(r, e) == IF Live(r) THEN [r EXCEPT !.exc = e] ELSE r

Say(r, line) == IF Live(r) THEN [r EXCEPT !.printed = Append(@, line)] ELSE r

\* _write: the frame goes out when the port is open and bytes() accepts every
\* entry; any failure (no port, closed port, an entry outside 0..255) is swallowed
write(r, b) ==
    IF ~Live(r) THEN r
    ELSE IF r.s.port = "open" /\ \A i \in 1 .. Len(b) : IsByte(b[i])
         THEN [r EXCEPT !.out = Append(@, Frame(b))]
         ELSE r

\* int(x*100) for a BARatio x of frange(0.2, 5.01, 0.05): the double product falls
\* just below the integer for eight of the values
TimesHundred(ba) == IF ba \in {115, 205, 230, 255, 410, 435, 460, 485} THEN ba - 1 ELSE ba

\* the nine entries b9 of _setParam9
b9(s) ==
    <<index(MODELs, s.Model), key(MODEs(s.Model), s.mode),
      key(curDirs(s.Model), s.currentDirection), key(wvForms(s.Model), s.waveform),
      5 - s.burstPulses>>
    \o int2byte(s.IPI \div 10) \o int2byte(TimesHundred(s.BARatio))

\* _setParam9 with its two writes in the other order
setParam9ReadFirst(r) == write(write(r, <<9, 0>>), <<9, 1>> \o b9(r.s))

\* _setParam9: the set frame, then the read request
setParam9(r) == write(write(r, <<9, 1>> \o b9(r.s)), <<9, 0>>)

\* the page setter
pageSetter(r, arg) ==
    LET k  == key(PAGEs, arg)
        r1 == write(write([r EXCEPT !.s.page = arg], <<7, k>>), <<12, 0>>)
    IN  IF ~Live(r) THEN r
        ELSE IF k < 0 THEN Raise(r, "AssertionError")
        ELSE IF r1.s.page # arg THEN Say(r1, "Failed to switch to page") ELSE r1

\* firePulse without its assert
firePulseUnchecked(s) == write(R(s), <<3>>)

firePulse(s) ==
    IF ~s.enabled THEN Raise(R(s), "AssertionError") ELSE write(R(s), <<3>>)

\* fireTrain with the fire frame written before the page setter runs
fireTrainFireFirst(s) ==
    IF ~s.enabled THEN Raise(R(s), "AssertionError")
    ELSE pageSetter(write(R(s), <<4>>), "Timing")

fireTrain(s) ==
    IF ~s.enabled THEN Raise(R(s), "AssertionError")
    ELSE write(pageSetter(R(s), "Timing"), <<4>>)

fireProtocol(s) ==
    IF ~s.enabled THEN Raise(R(s), "AssertionError")
    ELSE write(pageSetter(R(s), "Protocol"), <<4>>)

\* the amplitude setter; arg is [seq |-> is it a list or tuple, items |-> its
\* entries], a scalar having one entry
amplitudeSetter(s, arg) ==
    IF ~arg.seq /\ Len(s.amplitude) < 2 THEN Raise(R(s), "IndexError")
    ELSE LET amp == IF arg.seq THEN arg.items ELSE <<arg.items[1], s.amplitude[2]>>
         IN  IF ~(0 <= amp[1].v /\ amp[1].v <= 100 /\ amp[1].int)
             THEN Raise(R(s), "AssertionError")
             ELSE write(R([s EXCEPT !.amplitude = amp]),
                        <<1>> \o [i \in 1 .. Len(amp) |-> ByteOf(amp[i])])

\* the enabled setter
enabledSetter(s, tf) ==
    write(R([s EXCEPT !.enabled = tf]), <<2, IF tf THEN 1 ELSE 0>>)

\* the mode setter
modeSetter(s, arg) ==
    IF s.mode = arg THEN R(s)
    ELSE IF key(MODEs(s.Model), arg) < 0 THEN Raise(R(s), "AssertionError")
    ELSE setParam9(R([s EXCEPT !.mode = arg]))

\* the currentDirection setter. Its shortcut compares self._curDirs, a dict,
\* with the argument, a string: the two are never equal, so it is never taken.
currentDirectionSetter(s, arg) ==
    IF FALSE THEN R(s)
    ELSE IF key(curDirs(s.Model), arg) < 0 THEN Raise(R(s), "AssertionError")
    ELSE setParam9(R([s EXCEPT !.currentDirection = arg]))

\* the waveform setter
waveformSetter(s, arg) ==
    IF s.waveform = arg THEN R(s)
    ELSE IF key(wvForms(s.Model), arg) < 0 THEN Raise(R(s), "AssertionError")
    ELSE setParam9(R([s EXCEPT !.waveform = arg]))

\* a burstPulses setter that snaps its argument to the nearest of 2..5
burstPulsesSetterSnap(s, arg) ==
    IF s.burstPulses = arg THEN R(s)
    ELSE setParam9(R([s EXCEPT !.burstPulses = IF arg < 2 THEN 2 ELSE IF arg > 5 THEN 5 ELSE arg]))

\* the burstPulses setter
burstPulsesSetter(s, arg) ==
    IF s.burstPulses = arg THEN R(s)
    ELSE IF arg \notin {2, 3, 4, 5} THEN Raise(R(s), "AssertionError")
    ELSE setParam9(R([s EXCEPT !.burstPulses = arg]))

\* the IPI setter
IPISetter(s, arg) ==
    IF s.IPI = arg THEN R(s)
    ELSE LET c  == closestVal(arg, IPIs(s.mode, s.waveform))
             r1 == R([s EXCEPT !.IPI = c.val])
         IN  setParam9(IF Deviates(c) THEN Say(r1, "IPI adjusted") ELSE r1)

\* the delays setter; arg is [list |-> is it a list, items |-> its three
\* entries in hundredths of a millisecond]. The stored value is a list, which
\* equals no tuple, so the shortcut of the first line needs a list. Both
\* deviations that closestVal returns are dropped.
delaysSetter(s, arg) ==
    IF arg.list /\ s.delays = arg.items THEN R(s)
    ELSE LET di == closestVal(arg.items[1], DelayInputs).val
             do == closestVal(arg.items[2], DelayOutputs).val
             dc == closestVal(arg.items[3], ChargeDelays).val
         IN  write(write(R([s EXCEPT !.delays = <<di, do, dc>>]),
                         <<10, 1>> \o int2byte(di \div 10) \o int2byte((do \div 10) % 65536)
                         \o int2byte(dc \div Scale)),
                   <<10, 0>>)

\* resync with the train request ahead of the others
resyncTrainFirst(r) ==
    write(write(write(write(write(r, <<11, 0>>), <<5>>), <<9, 0>>), <<10, 0>>), <<12, 0>>)

\* resync
resync(r) ==
    write(write(write(write(write(r, <<5>>), <<9, 0>>), <<10, 0>>), <<11, 0>>), <<12, 0>>)

\* __del__ without its call of self._port.close()
delLeavesOpen(s) == s

\* __del__ (and disconnect, which calls it) on the session s: the port is closed
\* if there is one; clearing TMS._INS is the caller action's part
del(s) == [s EXCEPT !.port = IF @ = "open" THEN "closed" ELSE @]

\* ---------------------------------------------------------------- the train object

\* the four 16-bit entries of _setTrain: RepRate*10, PulsesInTrain,
\* NumberOfTrains, ITI*10, each as divmod(int(i), 256)
b16(s) ==
    int2byte(s.train.RepRate \div 10) \o int2byte(s.train.PulsesInTrain)
    \o int2byte(s.train.NumberOfTrains) \o int2byte(s.train.ITI \div 10)

\* _setTrain: the page setter, the set frame, the read request
setTrain(r) ==
    IF ~Live(r) THEN r
    ELSE write(write(pageSetter(r, "Timing"),
                     <<11, 1, index(TCs, r.s.train.TimingControl)>> \o b16(r.s)
                     \o <<IF r.s.train.PriorWarningSound THEN 1 ELSE 0>>),
               <<11, 0>>)

\* TMS._INS._setTrain() as the train setters call it: TMS._INS is None after
\* __del__, and None has no attribute _setTrain
setTrainINS(r, ins) == IF Live(r) /\ ins = 0 THEN Raise(r, "AttributeError") ELSE setTrain(r)

\* the TimingControl setter: with TMS._INS None the lookup of line 912 fails,
\* the bare except is entered and the message of its assert reads
\* TMS._INS._TCs again
TimingControlSetter(s, ins, arg) ==
    IF s.train.TimingControl = arg THEN R(s)
    ELSE IF ins = 0 THEN Raise(R(s), "AttributeError")
    ELSE IF ~\E i \in 1 .. Len(TCs) : TCs[i] = arg THEN Raise(R(s), "AssertionError")
    ELSE setTrainINS(R([s EXCEPT !.train.TimingControl = arg]), ins)

\* the RepRate setter: TMS._INS._RATEs is read before anything is stored
RepRateSetter(s, ins, arg) ==
    IF s.train.RepRate = arg THEN R(s)
    ELSE IF ins = 0 THEN Raise(R(s), "AttributeError")
    ELSE LET c == closestVal(arg, RATEs(s.Model, s.mode, s.waveform, s.ExRate))
             r == R([s EXCEPT !.train.RepRate = c.val])
         IN  setTrainINS(IF Deviates(c) THEN Say(r, "RepRate adjusted") ELSE r, ins)

\* the PriorWarningSound setter
PriorWarningSoundSetter(s, ins, arg) ==
    IF s.train.PriorWarningSound = arg THEN R(s)
    ELSE setTrainINS(R([s EXCEPT !.train.PriorWarningSound = arg]), ins)

\* the RampUp setter
RampUpSetter(s, ins, arg) ==
    IF s.train.RampUp = arg THEN R(s)
    ELSE LET c == closestVal(arg, RampUps)
             r == R([s EXCEPT !.train.RampUp = c.val])
         IN  setTrainINS(IF Deviates(c) THEN Say(r, "RampUp adjusted") ELSE r, ins)

\* A train setter called through the train object of the session o while
\* TMS._INS is the session ins (0: None), shown for PriorWarningSound: the
\* value is stored in the train object of o, and _setTrain runs on ins, with
\* the page, the train values and the port of ins.
trainSetterOn(os, ins, o, arg) ==
    IF os[o].s.train.PriorWarningSound = arg THEN [objs |-> os, out |-> << >>, exc |-> "none"]
    ELSE LET stored == [os EXCEPT ![o].s.train.PriorWarningSound = arg]
         IN  IF ins = 0 THEN [objs |-> stored, out |-> << >>, exc |-> "AttributeError"]
             ELSE [objs |-> [stored EXCEPT ![ins].s = setTrain(R(stored[ins].s)).s],
                   out |-> setTrain(R(stored[ins].s)).out,
                   exc |-> setTrain(R(stored[ins].s)).exc]

\* ---------------------------------------------------------------- the listener

\* b[k] inside _read: IndexError past the end of the packet
Need(r, b, k) == IF Live(r) /\ ~Has(b, k) THEN Raise(r, "IndexError") ELSE r

\* an assignment to a slot, to a slot of the train object, to a key of info
Put(r, f, v) == IF Live(r) THEN [r EXCEPT !.s[f] = v] ELSE r

PutTrain(r, f, v) == IF Live(r) THEN [r EXCEPT !.s.train[f] = v] ELSE r

PutInfo(r, f, v) == IF Live(r) THEN [r EXCEPT !.s.info[f] = v] ELSE r

\* tuple(b[i:j]) as stored by _read: a tuple of ints
IntTuple(b, i, j) == LET t == Slice(b, i, j) IN [x \in 1 .. Len(t) |-> PyInt(t[x])]

\* by2int(b, signed=True)
by2intSigned(t) ==
    IF Len(t) = 0 THEN 0
    ELSE IF t[1] >= 128 THEN by2int(t) - 2 ^ (8 * Len(t)) ELSE by2int(t)

\* self._mode = self._MODEs[k]: the dict of the model stored at this moment
putMode(r, k) ==
    IF ~Live(r) THEN r
    ELSE IF k \in DOMAIN MODEs(r.s.Model) THEN Put(r, "mode", MODEs(r.s.Model)[k])
    ELSE Raise(r, "KeyError")

\* self._currentDirection = self._curDirs[k]
putCurrentDirection(r, k) ==
    IF ~Live(r) THEN r
    ELSE IF k \in DOMAIN curDirs(r.s.Model) THEN Put(r, "currentDirection", curDirs(r.s.Model)[k])
    ELSE Raise(r, "KeyError")

\* self._waveform = WvForms[k]: the fixed tuple of all four waveforms
putWaveform(r, k) ==
    IF ~Live(r) THEN r
    ELSE IF Has(WvForms, k) THEN Put(r, "waveform", At(WvForms, k))
    ELSE Raise(r, "IndexError")

\* self._Model = self._MODELs[k]
putModel(r, k) ==
    IF ~Live(r) THEN r
    ELSE IF Has(MODELs, k) THEN Put(r, "Model", At(MODELs, k))
    ELSE Raise(r, "IndexError")

\* self._page = self._PAGEs[k]
putPage(r, k) ==
    IF ~Live(r) THEN r
    ELSE IF k \in DOMAIN PAGEs THEN Put(r, "page", PAGEs[k])
    ELSE Raise(r, "KeyError")

\* self._IPI = self._IPIs[i]
putIPI(r, i) ==
    IF ~Live(r) THEN r
    ELSE IF Has(IPIs(r.s.mode, r.s.waveform), i) THEN Put(r, "IPI", At(IPIs(r.s.mode, r.s.waveform), i))
    ELSE Raise(r, "IndexError")

\* _setCoilType
setCoilType(r, k) ==
    PutInfo(r, "CoilType",
            IF ~r.s.CoilTypeDisplay THEN "Hidden"
            ELSE IF k = 60 THEN "Cool-B65"
            ELSE IF k = 72 THEN "C-B60"
            ELSE ToString(k))

\* the three lines that follow each "def bit2int" of _read, on the status byte
\* b[k]: mode, waveform, enabled
statusBits(r, b, k) ==
    Put(putWaveform(putMode(Need(r, b, k), bit2int(At(b, k), 0, 2)), bit2int(At(b, k), 2, 2)),
        "enabled", bit2int(At(b, k), 4, 1) > 0)

\* the branch "b[2] in (0,5)" of _read
apply05(r, b) ==
    LET r1 == statusBits(r, b, 3)
        r2 == putModel(r1, bit2int(At(b, 3), 5, 3))
        r3 == PutInfo(r2, "SerialNo", by2int(Slice(b, 4, 7)))
        r4 == Put(Need(r3, b, 7), "temperature", At(b, 7))
        r5 == setCoilType(Need(r4, b, 8), At(b, 8))
        r6 == Put(r5, "amplitude", IntTuple(b, 9, 11))
    IN  IF At(b, 2) = 5 THEN Put(Need(r6, b, 16), "trainRunning", At(b, 16) > 0) ELSE r6

\* the branch "b[2] in (1,2,3,6,7,8)" without the status byte b[5]
apply1to8NoStatus(r, b) ==
    CASE At(b, 2) = 1 -> Put(r, "amplitude", IntTuple(b, 3, 5))
      [] At(b, 2) = 2 -> Put(r, "didt", Slice(b, 3, 5))
      [] At(b, 2) = 3 -> setCoilType(Need(Put(Need(r, b, 3), "temperature", At(b, 3)), b, 4), At(b, 4))
      [] At(b, 2) = 6 -> Say(Need(Need(r, b, 3), b, 4), "amplitudeOriginal")
      [] At(b, 2) = 7 -> Say(Need(r, b, 3), "protocol.AmplitudeAGain")
      [] OTHER -> Put(Need(putPage(Need(r, b, 3), At(b, 3)), b, 4), "trainRunning", At(b, 4) > 0)

\* the branch "b[2] in (1,2,3,6,7,8)" of _read
apply1to8(r, b) ==
    statusBits(
        CASE At(b, 2) = 1 -> Put(r, "amplitude", IntTuple(b, 3, 5))
          [] At(b, 2) = 2 -> Put(r, "didt", Slice(b, 3, 5))
          [] At(b, 2) = 3 -> setCoilType(Need(Put(Need(r, b, 3), "temperature", At(b, 3)), b, 4), At(b, 4))
          [] At(b, 2) = 6 -> Say(Need(Need(r, b, 3), b, 4), "amplitudeOriginal")
          [] At(b, 2) = 7 -> Say(Need(r, b, 3), "protocol.AmplitudeAGain")
          [] OTHER -> Put(Need(putPage(Need(r, b, 3), At(b, 3)), b, 4), "trainRunning", At(b, 4) > 0),
        b, 5)

\* the branch "b[2]==4" of _read
apply4(r, b) ==
    Put(r, "MEP", [maxAmplitude |-> by2int(Slice(b, 3, 7)),
                   minAmplitude |-> by2int(Slice(b, 7, 11)),
                   maxTime |-> by2int(Slice(b, 11, 15))])

\* if self._waveform=="Biphasic Burst": self._IPI = self._IPIs[b[10]*256+b[9]]
ipi9(r, b) ==
    IF ~Live(r) \/ r.s.waveform # "Biphasic Burst" THEN r
    ELSE putIPI(Need(Need(r, b, 10), b, 9), At(b, 10) * 256 + At(b, 9))

\* if self._mode=="Twin": self._BARatio = 5 - b[11]*0.05, in hundredths
baRatio9(r, b) ==
    IF ~Live(r) \/ r.s.mode # "Twin" THEN r
    ELSE Put(Need(r, b, 11), "BARatio", 500 - 5 * At(b, 11))

\* the branch "b[2]==9" of _read
apply9(r, b) ==
    LET r1 == putMode(Need(r, b, 5), At(b, 5))
        r2 == putCurrentDirection(Need(r1, b, 6), At(b, 6))
        r3 == putWaveform(Need(r2, b, 7), At(b, 7))
        r4 == Put(Need(r3, b, 8), "burstPulses", 5 - At(b, 8))
    IN  baRatio9(ipi9(r4, b), b)

\* the branch "b[2]==10" of _read: tenths on the wire, hundredths here (the
\* charge delay is whole milliseconds)
apply10(r, b) ==
    Put(r, "delays", <<10 * by2int(Slice(b, 4, 6)), 10 * by2intSigned(Slice(b, 6, 8)),
                       Scale * by2int(Slice(b, 8, 10))>>)

\* self.train._TimingControl = self._TCs[b[4]&15]
putTimingControl(r, k) ==
    IF ~Live(r) THEN r
    ELSE IF Has(TCs, k) THEN PutTrain(r, "TimingControl", At(TCs, k))
    ELSE Raise(r, "IndexError")

\* the branch "b[2]==11" without its last line, the extended-rate flag
apply11NoRate(r, b) ==
    LET r1 == putTimingControl(Need(r, b, 4), At(b, 4) % 16)
        r2 == PutTrain(r1, "RepRate", 10 * by2int(Slice(b, 5, 7)))
        r3 == PutTrain(r2, "PulsesInTrain", by2int(Slice(b, 7, 9)))
        r4 == PutTrain(r3, "NumberOfTrains", by2int(Slice(b, 9, 11)))
        r5 == PutTrain(r4, "ITI", 10 * by2int(Slice(b, 11, 13)))
        r6 == PutTrain(Need(r5, b, 13), "PriorWarningSound", At(b, 13) > 0)
        r7 == PutTrain(Need(r6, b, 14), "RampUp", At(b, 14))
    IN  PutTrain(Need(r7, b, 15), "RampUpTrains", At(b, 15))

\* the branch "b[2]==11" of _read
apply11(r, b) ==
    LET r1 == putTimingControl(Need(r, b, 4), At(b, 4) % 16)
        r2 == PutTrain(r1, "RepRate", 10 * by2int(Slice(b, 5, 7)))
        r3 == PutTrain(r2, "PulsesInTrain", by2int(Slice(b, 7, 9)))
        r4 == PutTrain(r3, "NumberOfTrains", by2int(Slice(b, 9, 11)))
        r5 == PutTrain(r4, "ITI", 10 * by2int(Slice(b, 11, 13)))
        r6 == PutTrain(Need(r5, b, 13), "PriorWarningSound", At(b, 13) > 0)
        r7 == PutTrain(Need(r6, b, 14), "RampUp", At(b, 14))
        r8 == PutTrain(Need(r7, b, 15), "RampUpTrains", At(b, 15))
    IN  Put(r8, "ExRate", bit2int(At(b, 4), 4, 1) > 0)

\* the branch "b[2]==12" of _read
apply12(r, b) ==
    putPage(Need(PutInfo(r, "stimCount", by2int(Slice(b, 11, 13))), b, 15), At(b, 15))

\* the test of line 518: the packet ends in 255 and carries its CRC8
Valid(b) ==
    /\ Len(b) >= 2
    /\ b[Len(b)] = 255
    /\ b[Len(b) - 1] = CRC8(Slice(b, 2, Len(b) - 2))

\* the dispatch on b[2] of _read
dispatch(r, b) ==
    IF ~Live(r) THEN r
    ELSE IF At(b, 2) \in {0, 5} THEN apply05(r, b)
    ELSE IF At(b, 2) \in {1, 2, 3, 6, 7, 8} THEN apply1to8(r, b)
    ELSE IF At(b, 2) = 4 THEN apply4(r, b)
    ELSE IF At(b, 2) = 9 THEN apply9(r, b)
    ELSE IF At(b, 2) = 10 THEN apply10(r, b)
    ELSE IF At(b, 2) = 11 THEN apply11(r, b)
    ELSE IF At(b, 2) = 12 THEN apply12(r, b)
    ELSE Say(r, "Unknown b[2]")

\* the body of the loop of _read for one candidate packet b
applyPacket(r, b) == IF ~Live(r) \/ ~Valid(b) THEN r ELSE dispatch(Need(r, b, 2), b)

\* the thread ends when an exception escapes _read
afterRead(r) == [r EXCEPT !.s.worker = Live(r)]

\* One round of the worker thread that finds the packet b waiting
worker(s, b) == afterRead(applyPacket(R(s), b))

\* b = byts[i0[i]:i0[i]+byts[i0[i]+1]+4] for the marker at index i: the slice
\* stops at the end of the buffer; a marker that is the last byte has no
\* length byte and gives no candidate (the except: continue)
candidate(byts, i) ==
    IF Has(byts, i + 1) THEN Slice(byts, i, i + At(byts, i + 1) + 4) ELSE << >>

\* the candidates of the loop of _read that pass the test of line 518, from
\* index i on, each with the index of its marker
RECURSIVE accepted(_, _)
accepted(byts, i) ==
    IF i >= Len(byts) THEN << >>
    ELSE IF At(byts, i) = 254 /\ Valid(candidate(byts, i))
         THEN <<[at |-> i, b |-> candidate(byts, i)]>> \o accepted(byts, i + 1)
         ELSE accepted(byts, i + 1)

\* the loop of _read over the accepted candidates, from the k-th on
RECURSIVE applyAll(_, _, _)
applyAll(r, frames, k) ==
    IF k > Len(frames) THEN r ELSE applyAll(applyPacket(r, frames[k].b), frames, k + 1)

\* One round of the worker thread that finds the bytes byts waiting: _read
\* runs when more than 7 bytes wait (line 119)
poll(s, byts) ==
    IF Len(byts) > 7 THEN afterRead(applyAll(R(s), accepted(byts, 0), 1)) ELSE R(s)

\* ---------------------------------------------------------------- construction

\* the probe frame that discovery writes to a candidate port
Probe == <<254, 1, 0, 0, 255>>

\* __init__ that keeps a port, starts the worker thread and sends resync()
\* whether or not an endpoint responded
initConnects(found) ==
    LET r == resync(R([NewSession EXCEPT !.port = "open", !.worker = TRUE]))
    IN  [r EXCEPT !.out = <<Probe>> \o @]

\* The body of TMS.__init__ past its guard: the defaults, then discovery. With a
\* responding endpoint the port is kept, the worker thread is started and
\* resync() is sent; without one the object stays without a port.
init(found) ==
    IF found
    THEN LET r == resync(R([NewSession EXCEPT !.port = "open", !.worker = TRUE]))
         IN  [r EXCEPT !.out = <<Probe>> \o @]
    ELSE Say(R(NewSession), "Failed to connect to stimulator.")

\* ---------------------------------------------------------------- inputs

\* the status byte of the device: mode in bits 0-1, waveform in bits 2-3,
\* enabled in bit 4, model in bits 5-7
StatusByte(m, w, e, M) == m + 4 * w + 16 * e + 32 * M

\* arguments the caller passes to the amplitude setter
Scalar(n) == [seq |-> FALSE, items |-> <<n>>]

Pair(a, b) == [seq |-> TRUE, items |-> <<a, b>>]

AmpArgs ==
    {Scalar(PyInt(60)), Scalar(PyInt(101)), Scalar(PyInt(-1)), Scalar(PyFloat(60)),
     Pair(PyInt(50), PyInt(150)), Pair(PyInt(50), PyInt(300)), Pair(PyInt(120), PyInt(40))}

PageArgs == {"Main", "Timing", "Bogus"}

ModeArgs == {"Standard", "Power", "Twin", "Bogus"}

DirArgs == {"Normal", "Reverse", "Bogus"}

WaveArgs == {"Monophasic", "Biphasic", "Halfsine", "Biphasic Burst", "Bogus"}

BurstArgs == {3, 6}

\* IPI requests in hundredths of a millisecond: 0.5, 3000.5
IPIArgs == {50, 300050}

\* packets the device sends in Spec: amplitude reports (command 1) with the
\* stimulator disabled, enabled, and in a mode the default model lacks; page
\* reports (commands 8 and 12); one packet with a wrong checksum
DevicePackets ==
    {Frame(<<1, 30, 40, StatusByte(0, 1, 0, 1)>>),
     Frame(<<1, 30, 40, StatusByte(0, 1, 1, 1)>>),
     Frame(<<1, 30, 40, StatusByte(1, 1, 1, 3)>>),
     Frame(<<8, 2, 1, StatusByte(0, 1, 1, 1)>>),
     Frame(<<8, 5, 0, StatusByte(0, 1, 0, 1)>>),
     Frame(<<12, 0, 0, 0, 0, 0, 0, 0, 0, 0, 9, 0, 0, 7>>),
     <<254, 4, 1, 30, 40, StatusByte(0, 1, 1, 1), 0, 255>>}

\* a status report (command 5) of a device with the given status byte
Status5(st) == Frame(<<5, st, 0, 0, 1, 21, 60, 0, 0, 0, 0, 0, 0, 0, 0>>)

\* a basic-parameter report (command 9)
Basic9(m, d, w, b8, idx, b11) == Frame(<<9, 0, 0, m, d, w, b8, idx % 256, idx \div 256, b11>>)

\* packets the device sends in SpecBasic
BasicPackets ==
    {Status5(StatusByte(0, 1, 0, 1)), Status5(StatusByte(0, 2, 0, 3)),
     Status5(StatusByte(2, 2, 0, 3)), Status5(StatusByte(0, 1, 0, 0)),
     Status5(StatusByte(0, 0, 0, 2)),
     Basic9(0, 0, 1, 3, 0, 80), Basic9(2, 1, 3, 3, 0, 60), Basic9(0, 1, 2, 2, 0, 80)}

\* ---------------------------------------------------------------- Spec: one session

\* the session takes the step whose outcome is r
Step(op, arg, r) ==
    /\ tms' = r.s
    /\ last' = <<op, arg, r.exc>>
    /\ wire' = r.out
    /\ printed' = r.printed
    /\ UNCHANGED <<objs, q>>

Init ==
    /\ \E found \in BOOLEAN :
          LET r == init(found)
          IN  /\ tms = r.s
              /\ last = <<"TMS", found, "none">>
              /\ wire = r.out
              /\ printed = r.printed
    /\ INS = 1
    /\ objs = << >>
    /\ q = << >>

FirePulse == Step("firePulse", << >>, firePulse(tms)) /\ UNCHANGED INS

FireTrain == Step("fireTrain", << >>, fireTrain(tms)) /\ UNCHANGED INS

FireProtocol == Step("fireProtocol", << >>, fireProtocol(tms)) /\ UNCHANGED INS

SetAmplitude == \E arg \in AmpArgs : Step("amplitude", arg, amplitudeSetter(tms, arg)) /\ UNCHANGED INS

SetEnabled == \E tf \in BOOLEAN : Step("enabled", tf, enabledSetter(tms, tf)) /\ UNCHANGED INS

SetPage == \E arg \in PageArgs : Step("page", arg, pageSetter(R(tms), arg)) /\ UNCHANGED INS

SetMode == \E arg \in ModeArgs : Step("mode", arg, modeSetter(tms, arg)) /\ UNCHANGED INS

SetCurrentDirection ==
    \E arg \in DirArgs : Step("currentDirection", arg, currentDirectionSetter(tms, arg)) /\ UNCHANGED INS

SetWaveform == \E arg \in WaveArgs : Step("waveform", arg, waveformSetter(tms, arg)) /\ UNCHANGED INS

SetBurstPulses == \E arg \in BurstArgs : Step("burstPulses", arg, burstPulsesSetter(tms, arg)) /\ UNCHANGED INS

SetIPI == \E arg \in IPIArgs : Step("IPI", arg, IPISetter(tms, arg)) /\ UNCHANGED INS

\* disconnect(): __del__ clears TMS._INS and closes the port
Disconnect == Step("disconnect", << >>, R(del(tms))) /\ INS' = 0

\* the worker thread finds a quiescent packet and hands it to _read
Listen ==
    /\ tms.worker /\ tms.port = "open"
    /\ \E b \in DevicePackets : Step("_read", b, worker(tms, b))
    /\ UNCHANGED INS

ListenBasic ==
    /\ tms.worker /\ tms.port = "open"
    /\ \E b \in BasicPackets : Step("_read", b, worker(tms, b))
    /\ UNCHANGED INS

\* the worker thread polls a port that is no longer open: in_waiting raises and
\* the thread returns
WorkerExit ==
    /\ tms.worker /\ tms.port # "open"
    /\ Step("worker", << >>, R([tms EXCEPT !.worker = FALSE]))
    /\ UNCHANGED INS

Next ==
    \/ FirePulse \/ FireTrain \/ FireProtocol
    \/ SetAmplitude \/ SetEnabled \/ SetPage
    \/ Listen \/ Disconnect \/ WorkerExit

Spec == Init /\ [][Next]_vars

NextBasic ==
    \/ SetMode \/ SetCurrentDirection \/ SetWaveform \/ SetBurstPulses \/ SetIPI
    \/ ListenBasic \/ Disconnect \/ WorkerExit

SpecBasic == Init /\ [][NextBasic]_vars

\* ---------------------------------------------------------------- SpecTrain: the train object

\* the fields of a train report of the device: timing byte, RepRate*10,
\* PulsesInTrain, NumberOfTrains, ITI*10 (each as two bytes, high first),
\* PriorWarningSound, RampUp*100, RampUpTrains
TrainReports ==
    {<<0, 0, 10, 0, 5, 0, 3, 0, 10, 1, 100, 10>>,
     <<1, 0, 200, 0, 5, 0, 3, 0, 10, 0, 100, 10>>,
     <<19, 1, 44, 3, 232, 1, 244, 11, 184, 1, 70, 1>>,
     <<18, 3, 232, 0, 1, 0, 1, 0, 1, 0, 85, 5>>,
     <<3, 0, 5, 7, 208, 0, 100, 0, 25, 2, 95, 3>>}

\* what the worker thread finds waiting: train reports, a report cut after
\* PriorWarningSound, one cut after the RepRate, one with a timing byte whose
\* low four bits are 4
TrainPackets ==
    {Frame(<<11, 0>> \o t) : t \in TrainReports}
    \cup {Frame(<<11, 0, 1, 0, 20, 0, 5, 0, 3, 0, 10, 1>>), Frame(<<11, 0, 1, 0, 20>>),
          Frame(<<11, 0, 4, 0, 10, 0, 5, 0, 3, 0, 10, 1, 100, 10>>)}

TimingControlArgs == {"Sequence", "External Trig", "Bogus"}

RepRateArgs == {50, 100, 2033, 25000}

SetTimingControl ==
    \E arg \in TimingControlArgs :
        Step("TimingControl", arg, TimingControlSetter(tms, INS, arg)) /\ UNCHANGED INS

SetRepRate ==
    \E arg \in RepRateArgs : Step("RepRate", arg, RepRateSetter(tms, INS, arg)) /\ UNCHANGED INS

SetPriorWarningSound ==
    \E arg \in BOOLEAN :
        Step("PriorWarningSound", arg, PriorWarningSoundSetter(tms, INS, arg)) /\ UNCHANGED INS

SetRampUp ==
    \E arg \in {72, 85} : Step("RampUp", arg, RampUpSetter(tms, INS, arg)) /\ UNCHANGED INS

ListenTrain ==
    /\ tms.worker /\ tms.port = "open"
    /\ \E b \in TrainPackets : Step("_read", b, worker(tms, b))
    /\ UNCHANGED INS

NextTrain ==
    \/ SetTimingControl \/ SetRepRate \/ SetPriorWarningSound \/ SetRampUp
    \/ ListenTrain \/ Disconnect \/ WorkerExit

SpecTrain == Init /\ [][NextTrain]_vars

\* ---------------------------------------------------------------- SpecRace: setter and worker thread

\* The waveform setter runs in the caller's thread and _read in the worker
\* thread, with no lock: the worker can run between the statements of the
\* setter. q holds the setter's position and its argument.
InitRace ==
    /\ tms = init(TRUE).s
    /\ last = <<"TMS", TRUE, "none">>
    /\ wire = init(TRUE).out
    /\ printed = << >>
    /\ INS = 1
    /\ objs = << >>
    /\ q = [pc |-> "idle", arg |-> ""]

\* the waveform setter up to and including "self._waveform = arg"
WaveformStore ==
    /\ q.pc = "idle"
    /\ \E arg \in WaveArgs :
          IF tms.waveform = arg \/ key(wvForms(tms.Model), arg) < 0
          THEN /\ last' = <<"waveform", arg, IF tms.waveform = arg THEN "none" ELSE "AssertionError">>
               /\ UNCHANGED <<tms, q>>
          ELSE /\ tms' = [tms EXCEPT !.waveform = arg]
               /\ q' = [pc |-> "stored", arg |-> arg]
               /\ last' = <<"waveform stored", arg, "none">>
    /\ wire' = << >>
    /\ printed' = << >>
    /\ UNCHANGED <<INS, objs>>

\* the last statement of the waveform setter, "self._setParam9()"
WaveformSend ==
    /\ q.pc = "stored"
    /\ tms' = setParam9(R(tms)).s
    /\ wire' = setParam9(R(tms)).out
    /\ printed' = << >>
    /\ last' = <<"waveform", q.arg, setParam9(R(tms)).exc>>
    /\ q' = [pc |-> "idle", arg |-> ""]
    /\ UNCHANGED <<INS, objs>>

NextRace == WaveformStore \/ WaveformSend \/ ListenBasic

SpecRace == InitRace /\ [][NextRace]_vars

\* ---------------------------------------------------------------- SpecFire: fire methods and worker thread

\* The fire methods run in the caller's thread; the worker thread can apply a
\* report between their assert and their writes. q holds the method the
\* caller is in once its assert has passed.
FireMethods == {"firePulse", "fireTrain", "fireProtocol"}

\* the first line of a fire method, "assert self._enabled"
FireAssert ==
    /\ q.pc = "idle"
    /\ \E m \in FireMethods :
          IF tms.enabled
          THEN /\ q' = [pc |-> "asserted", arg |-> m]
               /\ last' = <<"assert", m, "none">>
          ELSE /\ q' = q
               /\ last' = <<m, << >>, "AssertionError">>
    /\ wire' = << >>
    /\ printed' = << >>
    /\ UNCHANGED <<tms, INS, objs>>

\* the rest of the fire method after its assert: the page setter for
\* fireTrain and fireProtocol, then the fire frame
fireRest(s, m) ==
    IF m = "firePulse" THEN write(R(s), <<3>>)
    ELSE write(pageSetter(R(s), IF m = "fireTrain" THEN "Timing" ELSE "Protocol"), <<4>>)

FireSend ==
    /\ q.pc = "asserted"
    /\ tms' = fireRest(tms, q.arg).s
    /\ wire' = fireRest(tms, q.arg).out
    /\ printed' = fireRest(tms, q.arg).printed
    /\ last' = <<q.arg, << >>, fireRest(tms, q.arg).exc>>
    /\ q' = [pc |-> "idle", arg |-> ""]
    /\ UNCHANGED <<INS, objs>>

\* the enabled setter, called by the thread that calls the fire methods
SetEnabledIdle == q.pc = "idle" /\ SetEnabled

NextFire == FireAssert \/ FireSend \/ SetEnabledIdle \/ Listen

SpecFire == InitRace /\ [][NextFire]_vars

\* ---------------------------------------------------------------- SpecPage: page switch and reply

\* The page setter up to its two writes: the optimistic store, the
\* select-page frame, the page read request. q keeps the requested page.
PageRequest ==
    /\ q.pc # "written"
    /\ \E arg \in {"Main", "Timing", "Protocol"} :
          /\ tms' = [tms EXCEPT !.page = arg]
          /\ wire' = write(write(R(tms), <<7, key(PAGEs, arg)>>), <<12, 0>>).out
          /\ q' = [pc |-> "written", arg |-> arg]
          /\ last' = <<"page written", arg, "none">>
    /\ printed' = << >>
    /\ UNCHANGED <<INS, objs>>

\* the last line of the page setter: the warning is printed if the page slot
\* differs from the argument at this moment; then the setter returns
PageCheck ==
    /\ q.pc = "written"
    /\ printed' = IF tms.page # q.arg THEN <<"Failed to switch to page">> ELSE << >>
    /\ q' = [q EXCEPT !.pc = IF tms.page # q.arg THEN "warned" ELSE "silent"]
    /\ last' = <<"page", q.arg, "none">>
    /\ wire' = << >>
    /\ UNCHANGED <<tms, INS, objs>>

NextPage == PageRequest \/ PageCheck \/ Listen

SpecPage == InitRace /\ [][NextPage]_vars

\* ---------------------------------------------------------------- SpecDelays: the delays setter

\* requests in hundredths of a millisecond: members of the three sets, and
\* values between or beyond members
DelayArgs ==
    {[list |-> l, items |-> t] :
        l \in BOOLEAN,
        t \in {<<di, do, dc>> : di \in {0, 33, 10500}, do \in {-5540, 70}, dc \in {10000, 2000000}}}

\* delay reports of the device: 0.3, -3.6, 100 and 650, 10, 12000
DelayPackets == {Frame(<<10, 0, 0, 3, 255, 220, 0, 100>>), Frame(<<10, 0, 25, 100, 0, 100, 46, 224>>)}

SetDelays == \E arg \in DelayArgs : Step("delays", arg, delaysSetter(tms, arg)) /\ UNCHANGED INS

ListenDelays ==
    /\ tms.worker /\ tms.port = "open"
    /\ \E b \in DelayPackets : Step("_read", b, worker(tms, b))
    /\ UNCHANGED INS

NextDelays == SetDelays \/ ListenDelays \/ Disconnect \/ WorkerExit

SpecDelays == Init /\ [][NextDelays]_vars

\* ---------------------------------------------------------------- SpecInbound: the dedicated reports

\* reports of the device with the commands 1, 2, 3, 4, 10, 11 and 12: amplitude,
\* didt and temperature reports end in the status byte
InboundPackets ==
    {Frame(<<1, 30, 40, StatusByte(0, 1, 0, 1)>>), Frame(<<1, 50, 0, StatusByte(0, 1, 1, 1)>>),
     Frame(<<2, 12, 0, StatusByte(0, 0, 1, 1)>>), Frame(<<2, 0, 0, StatusByte(0, 1, 0, 1)>>),
     Frame(<<3, 25, 60, StatusByte(0, 1, 0, 1)>>), Frame(<<3, 31, 72, StatusByte(0, 3, 1, 1)>>),
     Frame(<<4, 0, 0, 1, 0, 0, 0, 0, 5, 0, 0, 0, 20>>),
     Frame(<<10, 0, 25, 100, 0, 100, 46, 224>>),
     Frame(<<11, 0, 19, 1, 44, 3, 232, 1, 244, 11, 184, 1, 70, 1>>),
     Frame(<<12, 0, 0, 0, 0, 0, 0, 0, 0, 0, 9, 0, 0, 7>>),
     Frame(<<12, 0, 0, 0, 0, 0, 0, 0, 0, 1, 0, 0, 0, 2>>)}

ListenInbound ==
    /\ tms.worker /\ tms.port = "open"
    /\ \E b \in InboundPackets : Step("_read", b, worker(tms, b))
    /\ UNCHANGED INS

NextInbound == ListenInbound \/ Disconnect \/ WorkerExit

SpecInbound == Init /\ [][NextInbound]_vars

\* ---------------------------------------------------------------- SpecSync: construction in steps, resync

\* TMS.__init__ statement by statement: q.pc is the statement the constructor
\* is at ("discover", "thread", "resync") or "done" once it has returned;
\* q.started tells that thread.start() has been called
InitSync ==
    /\ tms = NewSession
    /\ last = <<"TMS", "defaults", "none">>
    /\ wire = << >>
    /\ printed = << >>
    /\ INS = 1
    /\ objs = << >>
    /\ q = [pc |-> "discover", started |-> FALSE]

\* lines 99-110: discovery writes the probe; with an answer the port is kept,
\* without one the warning is printed and __init__ returns
Discover ==
    /\ q.pc = "discover"
    /\ \E found \in BOOLEAN :
          /\ tms' = IF found THEN [tms EXCEPT !.port = "open"] ELSE tms
          /\ wire' = IF found THEN <<Probe>> ELSE << >>
          /\ printed' = IF found THEN << >> ELSE <<"Failed to connect to stimulator.">>
          /\ last' = <<"TMS", IF found THEN "found" ELSE "none found", "none">>
          /\ q' = [q EXCEPT !.pc = IF found THEN "thread" ELSE "done"]
    /\ UNCHANGED <<INS, objs>>

\* lines 122-124: the worker thread is started
StartThread ==
    /\ q.pc = "thread"
    /\ tms' = [tms EXCEPT !.worker = TRUE]
    /\ last' = <<"TMS", "thread", "none">>
    /\ wire' = << >>
    /\ q' = [pc |-> "resync", started |-> TRUE]
    /\ UNCHANGED <<INS, objs, printed>>

\* line 125: the last statement of __init__
InitResync ==
    /\ q.pc = "resync"
    /\ tms' = resync(R(tms)).s
    /\ last' = <<"resync", "construction", resync(R(tms)).exc>>
    /\ wire' = resync(R(tms)).out
    /\ printed' = resync(R(tms)).printed
    /\ q' = [q EXCEPT !.pc = "done"]
    /\ UNCHANGED <<INS, objs>>

\* resync() called by the user of a constructed session
Resync == q.pc = "done" /\ Step("resync", "demand", resync(R(tms))) /\ UNCHANGED INS

\* the worker thread runs from its start on, also while __init__ has not returned
ListenSync ==
    /\ tms.worker /\ tms.port = "open"
    /\ \E b \in DevicePackets :
          /\ tms' = worker(tms, b).s
          /\ last' = <<"_read", b, worker(tms, b).exc>>
          /\ wire' = << >>
          /\ printed' = worker(tms, b).printed
    /\ UNCHANGED <<INS, objs, q>>

DisconnectSync == q.pc = "done" /\ Disconnect

NextSync == Discover \/ StartThread \/ InitResync \/ Resync \/ ListenSync \/ DisconnectSync \/ WorkerExit

SpecSync == InitSync /\ [][NextSync]_vars

\* ---------------------------------------------------------------- SpecReg: the registry

\* the number of session objects the process creates
MaxObj == 3

Objects == 1 .. MaxObj

\* TMS.__new__: the registered instance if there is one, else a fresh object
new(ins, fresh) == IF ins # 0 THEN ins ELSE fresh

\* TMS.__init__ without its first line "if TMS._INS: return"
initUnguarded(ins, os, self, found) ==
    [INS |-> self, objs |-> [os EXCEPT ![self] = [state |-> "alive", s |-> init(found).s]],
     out |-> init(found).out, printed |-> init(found).printed]

\* TMS.__init__ on the object self that __new__ returned
initGuarded(ins, os, self, found) ==
    IF ins # 0 THEN [INS |-> ins, objs |-> os, out |-> << >>, printed |-> << >>]
    ELSE [INS |-> self, objs |-> [os EXCEPT ![self] = [state |-> "alive", s |-> init(found).s]],
          out |-> init(found).out, printed |-> init(found).printed]

\* __del__, first line: TMS._INS = None, whoever is registered
delINS(ins, self) == 0

InitReg ==
    /\ INS = 0
    /\ objs = [o \in Objects |-> [state |-> "unborn", s |-> NewSession]]
    /\ last = <<"start", << >>, "none">>
    /\ wire = << >>
    /\ printed = << >>
    /\ tms = NewSession
    /\ q = << >>

\* T = TMS(): __new__, then __init__ on what it returned. Discovery finds a
\* responding endpoint or not.
Construct ==
    \E found \in BOOLEAN, fresh \in Objects :
        /\ IF INS # 0 THEN fresh = INS
           ELSE /\ objs[fresh].state = "unborn"
                /\ \A o \in Objects : o < fresh => objs[o].state # "unborn"
        /\ LET self == new(INS, fresh)
               c    == initGuarded(INS, objs, self, found)
           IN  /\ INS' = c.INS
               /\ objs' = c.objs
               /\ wire' = c.out
               /\ printed' = c.printed
               /\ last' = <<"TMS", [found |-> found, registered |-> INS # 0], "none", self>>
        /\ UNCHANGED <<tms, q>>

\* a mutator called through a handle the caller still holds
SetEnabledOn ==
    \E o \in Objects, tf \in BOOLEAN :
        /\ objs[o].state = "alive"
        /\ LET r == enabledSetter(objs[o].s, tf)
           IN  /\ objs' = [objs EXCEPT ![o].s = r.s]
               /\ wire' = r.out
               /\ printed' = r.printed
               /\ last' = <<"enabled", <<o, tf>>, r.exc>>
        /\ UNCHANGED <<INS, tms, q>>

\* T.disconnect() through a handle the caller still holds
DisconnectOn ==
    \E o \in Objects :
        /\ objs[o].state = "alive"
        /\ INS' = delINS(INS, o)
        /\ objs' = [objs EXCEPT ![o].s = del(@)]
        /\ last' = <<"disconnect", o, "none">>
        /\ wire' = << >>
        /\ printed' = << >>
        /\ UNCHANGED <<tms, q>>

\* the worker thread of a session whose port is no longer open returns
WorkerExitOn ==
    \E o \in Objects :
        /\ objs[o].state = "alive" /\ objs[o].s.worker /\ objs[o].s.port # "open"
        /\ objs' = [objs EXCEPT ![o].s.worker = FALSE]
        /\ last' = <<"worker", o, "none">>
        /\ wire' = << >>
        /\ printed' = << >>
        /\ UNCHANGED <<INS, tms, q>>

\* The interpreter finalises an object nothing refers to any more: not
\* TMS._INS, not a running worker thread (it holds self), not the caller.
Finalise ==
    \E o \in Objects :
        /\ objs[o].state = "alive" /\ INS # o /\ ~objs[o].s.worker
        /\ INS' = delINS(INS, o)
        /\ objs' = [objs EXCEPT ![o] = [state |-> "gone", s |-> del(@.s)]]
        /\ last' = <<"__del__", o, "none">>
        /\ wire' = << >>
        /\ printed' = << >>
        /\ UNCHANGED <<tms, q>>

NextReg == Construct \/ SetEnabledOn \/ DisconnectOn \/ WorkerExitOn \/ Finalise

SpecReg == InitReg /\ [][NextReg]_vars

\* ---------------------------------------------------------------- SpecClose: disconnect and the worker threads

\* the number of sessions the process builds in SpecClose
MaxSessions == 2

\* what the worker threads find waiting: a report that enables the session and
\* one with a mode the default model lacks
ClosePackets ==
    {Frame(<<1, 30, 40, StatusByte(0, 1, 1, 1)>>), Frame(<<1, 30, 40, StatusByte(1, 1, 1, 3)>>)}

\* q[o] is the place of the worker thread of the object o in its loop: at
\* "poll", before it reads in_waiting, or past the test of line 119 with the
\* packet b about to be handed to _read
InitClose ==
    /\ INS = 0
    /\ objs = [o \in Objects |-> [state |-> "unborn", s |-> NewSession]]
    /\ last = <<"start", << >>, "none">>
    /\ wire = << >>
    /\ printed = << >>
    /\ tms = NewSession
    /\ q = [o \in Objects |-> [pc |-> "poll", b |-> << >>]]

\* lines 114-119: both reads of in_waiting succeed and find the packet b
WorkerPollOf(o) ==
    /\ objs[o].s.worker /\ objs[o].s.port = "open" /\ q[o].pc = "poll"
    /\ \E b \in ClosePackets : q' = [q EXCEPT ![o] = [pc |-> "read", b |-> b]]
    /\ last' = <<"poll", o, "none">>
    /\ UNCHANGED <<INS, objs, wire, printed, tms>>

\* line 119, self._read() on an open port: the packet is applied
WorkerReadOf(o) ==
    /\ objs[o].s.worker /\ objs[o].s.port = "open" /\ q[o].pc = "read"
    /\ objs' = [objs EXCEPT ![o].s = worker(objs[o].s, q[o].b).s]
    /\ last' = <<"_read", <<o, q[o].b>>, worker(objs[o].s, q[o].b).exc>>
    /\ printed' = worker(objs[o].s, q[o].b).printed
    /\ wire' = << >>
    /\ q' = [q EXCEPT ![o] = [pc |-> "poll", b |-> << >>]]
    /\ UNCHANGED <<INS, tms>>

\* line 119, self._read() on a port closed since the poll: read_all raises
\* and the thread ends
WorkerReadFailOf(o) ==
    /\ objs[o].s.worker /\ objs[o].s.port # "open" /\ q[o].pc = "read"
    /\ objs' = [objs EXCEPT ![o].s.worker = FALSE]
    /\ last' = <<"_read", <<o, << >>>>, "PortNotOpenError">>
    /\ wire' = << >>
    /\ printed' = << >>
    /\ q' = [q EXCEPT ![o] = [pc |-> "poll", b |-> << >>]]
    /\ UNCHANGED <<INS, tms>>

\* lines 114-118: in_waiting raises on a port that is no longer open and the
\* thread returns
WorkerExitOf(o) ==
    /\ objs[o].s.worker /\ objs[o].s.port # "open" /\ q[o].pc = "poll"
    /\ objs' = [objs EXCEPT ![o].s.worker = FALSE]
    /\ last' = <<"worker", o, "none">>
    /\ wire' = << >>
    /\ printed' = << >>
    /\ UNCHANGED <<INS, tms, q>>

\* the next step of the worker thread of o once the port is closed
WorkerEndOf(o) == WorkerReadFailOf(o) \/ WorkerExitOf(o)

\* T = TMS(), while the process has built fewer than MaxSessions sessions or
\* one is registered
ConstructCapped == (INS # 0 \/ objs[MaxSessions].state = "unborn") /\ Construct

WorkerPollAny == \E o \in Objects : WorkerPollOf(o)

WorkerReadAny == \E o \in Objects : WorkerReadOf(o) \/ WorkerReadFailOf(o)

WorkerExitAny == \E o \in Objects : WorkerExitOf(o)

NextClose == ConstructCapped \/ DisconnectOn \/ WorkerPollAny \/ WorkerReadAny \/ WorkerExitAny \/ Finalise

\* each worker thread is a thread of its own and keeps being scheduled; only
\* its steps on a closed port need the fairness
SpecClose == InitClose /\ [][NextClose]_vars /\ \A o \in Objects : WF_vars(WorkerEndOf(o))

\* ---------------------------------------------------------------- SpecHandle: train setters and the registry

\* T.train.PriorWarningSound = arg through a handle the caller holds
SetPriorWarningSoundOn ==
    \E o \in Objects, arg \in BOOLEAN :
        /\ objs[o].state = "alive"
        /\ objs' = trainSetterOn(objs, INS, o, arg).objs
        /\ wire' = trainSetterOn(objs, INS, o, arg).out
        /\ last' = <<"PriorWarningSound", <<o, arg>>, trainSetterOn(objs, INS, o, arg).exc>>
        /\ printed' = << >>
        /\ UNCHANGED <<INS, tms, q>>

NextHandle == Construct \/ DisconnectOn \/ SetPriorWarningSoundOn

SpecHandle == InitReg /\ [][NextHandle]_vars

\* ---------------------------------------------------------------- SpecQ: closestVal

\* requests run over a grid of quarter units up to MaxReq quarters
MaxReq == 90

LegalSets ==
    {"IPIsStandard", "IPIsTwinBi", "IPIsTwinMono", "BARatios", "DelayInputs", "DelayOutputs",
     "ChargeDelays", "RATEs(1,100)", "RATEs(20,100)", "RATEs(5,0)", "NumbersOfTrains", "RampUps",
     "RampUpTrainCounts"}

Legal(name) ==
    CASE name = "IPIsStandard" -> IPIsStandard
      [] name = "IPIsTwinBi" -> IPIsTwinBi
      [] name = "IPIsTwinMono" -> IPIsTwinMono
      [] name = "BARatios" -> BARatios
      [] name = "DelayInputs" -> DelayInputs
      [] name = "DelayOutputs" -> DelayOutputs
      [] name = "ChargeDelays" -> ChargeDelays
      [] name = "RATEs(1,100)" -> RATEsOf(1, 100)
      [] name = "RATEs(20,100)" -> RATEsOf(20, 100)
      [] name = "RATEs(5,0)" -> RATEsOf(5, 0)
      [] name = "NumbersOfTrains" -> NumbersOfTrains
      [] name = "RampUps" -> RampUps
      [] OTHER -> RampUpTrainCounts

Members(name) == {Legal(name)[i] : i \in 1 .. Len(Legal(name))}

Requests == {k * 25 : k \in -2 .. MaxReq} \cup {30050, 300050}

InitQ ==
    /\ \E name \in LegalSets :
          \E val \in Requests \cup Members(name) :
             q = [set |-> name, val |-> val, stage |-> 0, out |-> << >>, again |-> << >>]
    /\ INS = 0
    /\ objs = << >>
    /\ last = <<"start", << >>, "none">>
    /\ wire = << >>
    /\ printed = << >>
    /\ tms = NewSession

\* closestVal applied to the request
Quantize ==
    /\ q.stage = 0
    /\ q' = [q EXCEPT !.stage = 1, !.out = closestVal(q.val, Legal(q.set))]
    /\ UNCHANGED <<tms, INS, objs, last, wire, printed>>

\* closestVal applied to its own result
Requantize ==
    /\ q.stage = 1
    /\ q' = [q EXCEPT !.stage = 2, !.again = closestVal(q.out.val, Legal(q.set))]
    /\ UNCHANGED <<tms, INS, objs, last, wire, printed>>

NextQ == Quantize \/ Requantize

SpecQ == InitQ /\ [][NextQ]_vars

\* ---------------------------------------------------------------- SpecSets: the legal sets

Fields ==
    {"IPI", "RepRate", "BARatio", "DelayInput", "DelayOutput", "ChargeDelay", "PulsesInTrain",
     "NumberOfTrains", "ITI", "RampUp", "RampUpTrains"}

\* the set a setter of the field quantizes into, for a session with the given
\* model, mode, waveform and extended-rate flag
LegalSet(field, Model, mode, waveform, ExRate) ==
    CASE field = "IPI" -> IPIs(mode, waveform)
      [] field = "RepRate" -> RATEs(Model, mode, waveform, ExRate)
      [] field = "BARatio" -> BARatios
      [] field = "DelayInput" -> DelayInputs
      [] field = "DelayOutput" -> DelayOutputs
      [] field = "ChargeDelay" -> ChargeDelays
      [] field = "PulsesInTrain" -> PulsesInTrainCounts
      [] field = "NumberOfTrains" -> NumbersOfTrains
      [] field = "ITI" -> ITIs
      [] field = "RampUp" -> RampUps
      [] OTHER -> RampUpTrainCounts

\* the value TMS.__init__ and trainParam.__init__ give the field
Default(field) ==
    CASE field = "IPI" -> NewSession.IPI
      [] field = "RepRate" -> NewSession.train.RepRate
      [] field = "BARatio" -> NewSession.BARatio
      [] field = "DelayInput" -> NewSession.delays[1]
      [] field = "DelayOutput" -> NewSession.delays[2]
      [] field = "ChargeDelay" -> NewSession.delays[3]
      [] field = "PulsesInTrain" -> Scale * NewSession.train.PulsesInTrain
      [] field = "NumberOfTrains" -> Scale * NewSession.train.NumberOfTrains
      [] field = "ITI" -> NewSession.train.ITI
      [] field = "RampUp" -> NewSession.train.RampUp
      [] OTHER -> Scale * NewSession.train.RampUpTrains

\* a session of any model, in a mode and waveform legal for it
InitSets ==
    /\ \E i \in 1 .. Len(MODELs), ExRate \in BOOLEAN, field \in Fields :
          \E km \in DOMAIN MODEs(MODELs[i]), kw \in DOMAIN wvForms(MODELs[i]) :
             q = [field |-> field, Model |-> MODELs[i], mode |-> MODEs(MODELs[i])[km],
                  waveform |-> wvForms(MODELs[i])[kw], ExRate |-> ExRate, stage |-> 0,
                  set |-> << >>]
    /\ INS = 0
    /\ objs = << >>
    /\ last = <<"start", << >>, "none">>
    /\ wire = << >>
    /\ printed = << >>
    /\ tms = NewSession

\* the legal set of the field is derived
Derive ==
    /\ q.stage = 0
    /\ q' = [q EXCEPT !.stage = 1,
                      !.set = LegalSet(q.field, q.Model, q.mode, q.waveform, q.ExRate)]
    /\ UNCHANGED <<tms, INS, objs, last, wire, printed>>

NextSets == Derive

SpecSets == InitSets /\ [][NextSets]_vars

\* ---------------------------------------------------------------- SpecCodec: frames

\* the longest payload of the enumerated messages
MaxPayload == 2

\* payloads: every sequence of up to MaxPayload bytes out of 0, the marker and
\* the terminator; an amplitude report; a payload that holds a whole frame; a
\* payload that ends in a marker and a length byte
Payloads ==
    UNION {[1 .. k -> {0, 254, 255}] : k \in 0 .. MaxPayload}
    \cup {<<30, 40, 5>>, <<254, 0, 0, 255>>, <<0, 254, 229>>}

\* a message is <<command id>> \o payload
Messages == {<<id>> \o p : id \in {1, 9}, p \in Payloads}

\* what the transport does to the bytes on their way
Damages == {"none", "cut", "crc", "end"}

damage(buf, kind) ==
    CASE kind = "cut" -> SubSeq(buf, 1, Len(buf) - 1)
      [] kind = "crc" -> [buf EXCEPT ![Len(buf) - 1] = (@ + 1) % 256]
      [] kind = "end" -> [buf EXCEPT ![Len(buf)] = 0]
      [] OTHER -> buf

InitCodec ==
    /\ \E m1 \in Messages, m2 \in Messages \cup {<< >>} :
          q = [msgs |-> IF m2 = << >> THEN <<m1>> ELSE <<m1, m2>>, stage |-> 0, damage |-> "none",
               buf |-> << >>, got |-> << >>, each |-> << >>]
    /\ tms = init(TRUE).s
    /\ last = <<"TMS", TRUE, "none">>
    /\ wire = init(TRUE).out
    /\ printed = << >>
    /\ INS = 1
    /\ objs = << >>

\* the peer writes the messages as _write does, one frame after the other
Encode ==
    /\ q.stage = 0
    /\ q' = [q EXCEPT !.stage = 1,
                      !.buf = IF Len(q.msgs) = 1 THEN Frame(q.msgs[1])
                              ELSE Frame(q.msgs[1]) \o Frame(q.msgs[2])]
    /\ UNCHANGED <<tms, INS, objs, last, wire, printed>>

\* the bytes are damaged in transit
Damage ==
    /\ q.stage = 1 /\ q.damage = "none"
    /\ \E kind \in Damages \ {"none"} : q' = [q EXCEPT !.damage = kind, !.buf = damage(q.buf, kind)]
    /\ UNCHANGED <<tms, INS, objs, last, wire, printed>>

\* the worker thread finds the bytes waiting; got is what the loop of _read
\* accepts in the buffer, each what it accepts in each frame on its own
Poll ==
    /\ q.stage = 1
    /\ tms.worker /\ tms.port = "open"
    /\ q' = [q EXCEPT !.stage = 2,
                      !.got = accepted(q.buf, 0),
                      !.each = IF Len(q.msgs) = 1 THEN accepted(Frame(q.msgs[1]), 0)
                               ELSE accepted(Frame(q.msgs[1]), 0) \o accepted(Frame(q.msgs[2]), 0)]
    /\ tms' = poll(tms, q.buf).s
    /\ last' = <<"_read", q.buf, poll(tms, q.buf).exc>>
    /\ wire' = << >>
    /\ printed' = poll(tms, q.buf).printed
    /\ UNCHANGED <<INS, objs>>

NextCodec == Encode \/ Damage \/ Poll

SpecCodec == InitCodec /\ [][NextCodec]_vars

\* ---------------------------------------------------------------- SpecPort: the worker's polls

\* what the device sends: an amplitude report followed by a page report; a
\* status report
Streams ==
    {Frame(<<1, 30, 40, StatusByte(0, 1, 1, 1)>>) \o Frame(<<8, 2, 1, StatusByte(0, 1, 1, 1)>>),
     Status5(StatusByte(0, 1, 1, 1))}

\* n1 > 7 alone, whatever the first poll returned
quiescentAny(n0, n1) == n1 > 7

\* the test "n1 == n0 > 7" of the worker
quiescent(n0, n1) == n1 = n0 /\ n0 > 7

\* q.waiting is the input buffer of the port (in_waiting is its length),
\* q.rest the bytes the device has not delivered yet, q.sent all it sends,
\* q.pc the worker's position and q.n0 the result of its first poll.
InitPort ==
    /\ \E st \in Streams : q = [pc |-> "poll0", n0 |-> 0, waiting |-> << >>, rest |-> st, sent |-> st]
    /\ tms = init(TRUE).s
    /\ last = <<"TMS", TRUE, "none">>
    /\ wire = init(TRUE).out
    /\ printed = << >>
    /\ INS = 1
    /\ objs = << >>

\* some more bytes of the device arrive at the port
Arrive ==
    /\ \E k \in 1 .. Len(q.rest) :
          q' = [q EXCEPT !.waiting = @ \o SubSeq(q.rest, 1, k),
                         !.rest = SubSeq(q.rest, k + 1, Len(q.rest))]
    /\ UNCHANGED <<tms, INS, objs, last, wire, printed>>

\* n0 = self._port.in_waiting
WorkerPoll0 ==
    /\ tms.worker /\ q.pc = "poll0"
    /\ q' = [q EXCEPT !.pc = "poll1", !.n0 = Len(q.waiting)]
    /\ UNCHANGED <<tms, INS, objs, last, wire, printed>>

\* n1 = self._port.in_waiting; if n1 == n0 > 7: self._read(). read_all()
\* empties the input buffer into the local byts of _read, which is dropped
\* when _read returns.
WorkerPoll1 ==
    /\ tms.worker /\ q.pc = "poll1"
    /\ IF quiescent(q.n0, Len(q.waiting))
       THEN /\ tms' = poll(tms, q.waiting).s
            /\ printed' = poll(tms, q.waiting).printed
            /\ last' = <<"_read", q.waiting, poll(tms, q.waiting).exc>>
            /\ q' = [q EXCEPT !.pc = "poll0", !.waiting = << >>]
       ELSE /\ last' = <<"polls", <<q.n0, Len(q.waiting)>>, "none">>
            /\ q' = [q EXCEPT !.pc = "poll0"]
            /\ UNCHANGED <<tms, printed>>
    /\ wire' = << >>
    /\ UNCHANGED <<INS, objs>>

NextPort == Arrive \/ WorkerPoll0 \/ WorkerPoll1

SpecPort == InitPort /\ [][NextPort]_vars

\* ---------------------------------------------------------------- SpecDrain: reports that arrive whole

\* what the device sends, report by report: amplitude reports of an enabled
\* and of a disabled stimulator, a page report, and an amplitude report whose
\* status byte names the mode 1, which the model X100 lacks
DrainStreams ==
    {<<Frame(<<1, 30, 40, StatusByte(0, 1, 1, 1)>>), Frame(<<8, 2, 1, StatusByte(0, 1, 1, 1)>>)>>,
     <<Frame(<<1, 50, 0, StatusByte(0, 1, 0, 1)>>), Frame(<<1, 30, 40, StatusByte(0, 1, 1, 1)>>)>>,
     <<Frame(<<1, 30, 40, StatusByte(1, 1, 1, 3)>>), Frame(<<1, 30, 40, StatusByte(0, 1, 1, 1)>>)>>}

\* q.waiting is the input buffer of the port, q.rest the reports the device
\* has not delivered yet, q.pc the worker's position, q.n0 its first poll
InitDrain ==
    /\ \E st \in DrainStreams : q = [pc |-> "poll0", n0 |-> 0, waiting |-> << >>, rest |-> st]
    /\ tms = init(TRUE).s
    /\ last = <<"TMS", TRUE, "none">>
    /\ wire = init(TRUE).out
    /\ printed = << >>
    /\ INS = 1
    /\ objs = << >>

\* the next report of the device arrives at the port, all its bytes at once
ArriveWhole ==
    /\ q.rest # << >> /\ tms.port = "open"
    /\ q' = [q EXCEPT !.waiting = @ \o Head(q.rest), !.rest = Tail(q.rest)]
    /\ UNCHANGED <<tms, INS, objs, last, wire, printed>>

\* the two polls of the worker on an open port
DrainPoll0 == tms.port = "open" /\ WorkerPoll0

DrainPoll1 == tms.port = "open" /\ WorkerPoll1

NextDrain == ArriveWhole \/ DrainPoll0 \/ DrainPoll1 \/ Disconnect \/ WorkerExit

\* weak fairness of the second poll, WF_vars(DrainPoll1), with its ENABLED
\* written out: the step is possible exactly while the worker is at its second
\* poll on an open port, and it always moves q.pc
FairPoll1 ==
    []<>(~(tms.port = "open" /\ tms.worker /\ q.pc = "poll1")) \/ []<><<DrainPoll1>>_vars

\* the worker thread keeps being scheduled
SpecDrain == InitDrain /\ [][NextDrain]_vars /\ WF_vars(DrainPoll0) /\ FairPoll1

\* ---------------------------------------------------------------- properties of Spec

\* C3: firePulse, fireTrain and fireProtocol called while enabled is false
\* fail (the assert of their first line), write no frame and change no field.
C3_NotEnabled ==
    [][(lastOp' \in {"firePulse", "fireTrain", "fireProtocol"} /\ ~tms.enabled) =>
          /\ lastExc' = "AssertionError"
          /\ wire' = << >>
          /\ tms' = tms]_vars

\* fireTrain was refused on a connected, disabled session still on page Main
C3_Refused ==
    /\ lastOp = "fireTrain" /\ lastExc = "AssertionError"
    /\ ~tms.enabled /\ tms.port = "open" /\ tms.page = "Main"
    /\ wire = << >>

\* C22: on a connected session with enabled true, fireTrain writes exactly the
\* select-page frame (7, 2), the page read request (12, 0) and the fire frame
\* (4), in this order, and leaves the page "Timing"; fireProtocol writes (7, 7),
\* (12, 0), (4) and leaves the page "Protocol".
C22_PageBeforeFire ==
    [][/\ (lastOp' = "fireTrain" /\ tms.enabled /\ tms.port = "open") =>
             /\ lastExc' = "none"
             /\ wire' = <<Frame(<<7, 2>>), Frame(<<12, 0>>), Frame(<<4>>)>>
             /\ tms'.page = "Timing"
       /\ (lastOp' = "fireProtocol" /\ tms.enabled /\ tms.port = "open") =>
             /\ lastExc' = "none"
             /\ wire' = <<Frame(<<7, 7>>), Frame(<<12, 0>>), Frame(<<4>>)>>
             /\ tms'.page = "Protocol"]_vars

\* fireTrain has run on a connected, enabled session: three frames were
\* written, the last of them the fire frame, and the page is "Timing"
C22_TrainFired ==
    /\ lastOp = "fireTrain" /\ lastExc = "none"
    /\ tms.enabled /\ tms.port = "open" /\ tms.page = "Timing"
    /\ Len(wire) = 3 /\ wire[1] = Frame(<<7, 2>>) /\ wire[3] = Frame(<<4>>)

\* C4: the amplitude setter fails for every input other than a scalar or pair
\* whose values are all integers in [0,100]; the stored amplitude is then
\* unchanged and no command-1 frame is written.
C4_AmplitudeValidated ==
    [][(/\ lastOp' = "amplitude"
        /\ \E i \in 1 .. Len(lastArg'.items) :
              ~(lastArg'.items[i].int /\ lastArg'.items[i].v \in 0 .. 100)) =>
          /\ lastExc' = "AssertionError"
          /\ tms'.amplitude = tms.amplitude
          /\ \A i \in 1 .. Len(wire') : wire'[i][3] # 1]_vars

\* C5: on an open transport, setting amplitude to a scalar integer a in
\* [0,100] stores (a, previous B), writes exactly one frame, command 1 with
\* payload (a, previous B), and changes no other field.
C5_ScalarAmplitude ==
    [][(/\ lastOp' = "amplitude"
        /\ ~lastArg'.seq
        /\ lastArg'.items[1].int /\ lastArg'.items[1].v \in 0 .. 100
        /\ tms.port = "open") =>
          /\ tms' = [tms EXCEPT !.amplitude = <<lastArg'.items[1], tms.amplitude[2]>>]
          /\ Len(wire') = 1
          /\ wire'[1][3] = 1
          /\ SubSeq(wire'[1], 4, 5) = <<lastArg'.items[1].v, tms.amplitude[2].v>>]_vars

\* ---------------------------------------------------------------- properties of SpecBasic

\* C6: setting mode, currentDirection, waveform or page to a value outside the
\* enumeration of the current model fails, changes no field and writes nothing.
C6_IllegalRejected ==
    [][(\/ lastOp' = "mode" /\ key(MODEs(tms.Model), lastArg') < 0
        \/ lastOp' = "currentDirection" /\ key(curDirs(tms.Model), lastArg') < 0
        \/ lastOp' = "waveform" /\ key(wvForms(tms.Model), lastArg') < 0
        \/ lastOp' = "page" /\ key(PAGEs, lastArg') < 0) =>
          /\ lastExc' = "AssertionError"
          /\ tms' = tms
          /\ wire' = << >>]_vars

\* C7 as stated: on an open transport every successful call of the mode,
\* currentDirection or waveform setter, the stored value included, writes the
\* command-9 set frame built from the fields after the call and then the
\* command-9 read request.
C7_AlwaysTransmits ==
    [][(/\ lastOp' \in {"mode", "currentDirection", "waveform"}
        /\ lastExc' = "none"
        /\ tms.port = "open") =>
          /\ Len(wire') = 2
          /\ SubSeq(wire'[1], 3, 13) = <<9, 1>> \o b9(tms')
          /\ wire'[2] = Frame(<<9, 0>>)]_vars

\* C7 amended: a successful mode or waveform call with the stored value changes
\* nothing and writes nothing. Every other successful call of the three setters
\* stores the value and, on an open transport, writes the command-9 read
\* request, preceded by the set frame of the fields after the call when these
\* encode to bytes; on a transport that is not open it writes nothing.
C7_TransmitsOnChange ==
    [][(/\ lastOp' \in {"mode", "currentDirection", "waveform"}
        /\ lastExc' = "none") =>
          IF lastOp' # "currentDirection" /\ tms[lastOp'] = lastArg'
          THEN tms' = tms /\ wire' = << >>
          ELSE /\ tms' = [tms EXCEPT ![lastOp'] = lastArg']
               /\ wire' = IF tms.port # "open" THEN << >>
                          ELSE IF \A i \in 1 .. 9 : IsByte(b9(tms')[i])
                               THEN <<Frame(<<9, 1>> \o b9(tms')), Frame(<<9, 0>>)>>
                               ELSE <<Frame(<<9, 0>>)>>]_vars

\* the waveform setter stored a new value on an open transport and wrote the
\* set frame and the read request
C7_Transmitted ==
    /\ lastOp = "waveform" /\ lastExc = "none"
    /\ tms.waveform = lastArg /\ tms.port = "open"
    /\ Len(wire) = 2
    /\ SubSeq(wire[1], 3, 4) = <<9, 1>>
    /\ wire[1][8] = key(wvForms(tms.Model), lastArg)

\* C8: mode, currentDirection and waveform are members of the enumerations
\* _MODEs, _curDirs and _wvForms of the current model in every reachable state.
C8_EnumsLegal ==
    /\ key(MODEs(tms.Model), tms.mode) >= 0
    /\ key(curDirs(tms.Model), tms.currentDirection) >= 0
    /\ key(wvForms(tms.Model), tms.waveform) >= 0

\* C9: on an open transport, setting IPI to a value outside the legal set of
\* the current mode and waveform stores the nearest member, prints the warning
\* exactly when the deviation exceeds 0.001, does not fail and writes the
\* command-9 set frame carrying the stored value. Stated for the states where
\* mode, direction and waveform are legal for the model, so that a set frame
\* can be built at all.
C9_IPIQuantized ==
    [][(/\ lastOp' = "IPI"
        /\ tms.port = "open"
        /\ C8_EnumsLegal
        /\ \A i \in 1 .. Len(IPIs(tms.mode, tms.waveform)) :
              IPIs(tms.mode, tms.waveform)[i] # lastArg') =>
          /\ lastExc' = "none"
          /\ tms'.IPI = closestVal(lastArg', IPIs(tms.mode, tms.waveform)).val
          /\ (printed' # << >>) <=> Deviates(closestVal(lastArg', IPIs(tms.mode, tms.waveform)))
          /\ \E i \in 1 .. Len(wire') :
                /\ SubSeq(wire'[i], 3, 4) = <<9, 1>>
                /\ SubSeq(wire'[i], 10, 11) = int2byte(tms'.IPI \div 10)]_vars

\* C24: every command-9 set frame on the wire carries, at b[9:11], an IPI
\* (in tenths) that is a member of the legal IPI set of the mode b[5] and the
\* waveform b[7] of the same frame, and at b[11:13] a BARatio (in hundredths)
\* that is a member of frange(0.2, 5.01, 0.05).
C24_FrameLegal ==
    \A i \in 1 .. Len(wire) :
        Slice(wire[i], 2, 4) = <<9, 1>> =>
            /\ \E k \in 1 .. Len(IPIs(MODEs("X100+Option")[At(wire[i], 5)], At(WvForms, At(wire[i], 7)))) :
                  IPIs(MODEs("X100+Option")[At(wire[i], 5)], At(WvForms, At(wire[i], 7)))[k]
                      = 10 * by2int(Slice(wire[i], 9, 11))
            /\ \E k \in 1 .. Len(BARatios) : BARatios[k] = by2int(Slice(wire[i], 11, 13))

C31_ReportApplied ==
    [][(lastOp' = "_read" /\ lastExc' = "none" /\ Valid(lastArg') /\ At(lastArg', 2) = 9) =>
          /\ tms'.mode = MODEs(tms.Model)[At(lastArg', 5)]
          /\ tms'.currentDirection = curDirs(tms.Model)[At(lastArg', 6)]
          /\ tms'.waveform = At(WvForms, At(lastArg', 7))
          /\ tms'.burstPulses = 5 - At(lastArg', 8)
          /\ tms'.IPI = At(IPIs(tms'.mode, tms'.waveform), At(lastArg', 9) + 256 * At(lastArg', 10))
          /\ tms'.BARatio = 500 - 5 * At(lastArg', 11)]_vars

\* C35: a call of the mode, currentDirection, waveform, burstPulses or IPI
\* setter with the value already stored changes no field and writes no frame.
C35_StoredValueNoOp ==
    [][(/\ lastOp' \in {"mode", "currentDirection", "waveform", "burstPulses", "IPI"}
        /\ tms[lastOp'] = lastArg') =>
          (lastExc' = "none" /\ tms' = tms /\ wire' = << >>)]_vars

\* ---------------------------------------------------------------- properties of SpecReg

\* C1: while a session is registered, a TMS() construction returns the
\* registered object, resets no field of any object, and writes nothing: no
\* second transport is opened and no second listener started.
C1_Reuse ==
    [][(lastOp' = "TMS" /\ INS # 0) =>
          /\ lastRet' = INS
          /\ INS' = INS
          /\ objs' = objs
          /\ wire' = << >>]_vars

\* a construction returned the registered session, which is connected and whose
\* enabled field a setter had changed from its default
C1_Reused ==
    /\ lastOp = "TMS" /\ lastArg.registered
    /\ INS # 0 /\ lastRet = INS
    /\ objs[INS].s.enabled /\ objs[INS].s.port = "open" /\ objs[INS].s.worker
    /\ wire = << >>

\* C2: at most one session object holds an open transport, and TMS._INS is
\* that object whenever there is one.
C2_OneLiveSession ==
    LET open == {o \in Objects : objs[o].state = "alive" /\ objs[o].s.port = "open"}
    IN  /\ Cardinality(open) <= 1
        /\ \A o \in open : INS = o

\* C19: a construction with no session registered and no endpoint responding
\* completes, leaves the new object with the default state (no port, no worker
\* thread), writes no frame, prints the warning and registers the object; a
\* later construction returns that object untouched.
C19_InertSession ==
    [][/\ (lastOp' = "TMS" /\ INS = 0 /\ ~lastArg'.found) =>
             /\ lastExc' = "none"
             /\ objs'[lastRet'].state = "alive"
             /\ objs'[lastRet'].s = NewSession
             /\ ~objs'[lastRet'].s.worker /\ objs'[lastRet'].s.port = "none"
             /\ wire' = << >>
             /\ printed' = <<"Failed to connect to stimulator.">>
             /\ INS' = lastRet'
       /\ (lastOp' = "TMS" /\ INS # 0 /\ objs[INS].s.port = "none") =>
             (lastRet' = INS /\ INS' = INS /\ objs' = objs)]_vars

\* a later construction has returned the registered session that found no
\* endpoint: it has no port, no worker thread and the default amplitude
C19_InertReturned ==
    /\ lastOp = "TMS" /\ lastArg.registered
    /\ INS # 0 /\ lastRet = INS
    /\ objs[INS].s.port = "none" /\ ~objs[INS].s.worker
    /\ objs[INS].s.amplitude = NewSession.amplitude
    /\ wire = << >>

\* ---------------------------------------------------------------- properties of SpecHandle

\* C30: a change of a train field (here PriorWarningSound) of a session whose
\* port is open does not fail, stores the value and writes the command-11 set
\* frame built from the train fields of that session: set flag 1, the index of
\* TimingControl, RepRate*10, PulsesInTrain, NumberOfTrains and ITI*10 as
\* 16-bit numbers, the warning-sound flag, and nothing of RampUp or
\* RampUpTrains (a frame of 16 bytes); the read request (11, 0) follows it.
C30_TrainFrameSent ==
    [][(/\ lastOp' = "PriorWarningSound"
        /\ objs[lastArg'[1]].s.port = "open"
        /\ objs[lastArg'[1]].s.train.PriorWarningSound # lastArg'[2]) =>
          LET t == objs'[lastArg'[1]].s.train
          IN  /\ lastExc' = "none"
              /\ t.PriorWarningSound = lastArg'[2]
              /\ \E i \in 1 .. Len(wire') - 1 :
                    /\ Len(wire'[i]) = 16
                    /\ Slice(wire'[i], 2, 4) = <<11, 1>>
                    /\ At(TCs, At(wire'[i], 4)) = t.TimingControl
                    /\ Scale * by2int(Slice(wire'[i], 5, 7)) = 10 * t.RepRate
                    /\ by2int(Slice(wire'[i], 7, 9)) = t.PulsesInTrain
                    /\ by2int(Slice(wire'[i], 9, 11)) = t.NumberOfTrains
                    /\ Scale * by2int(Slice(wire'[i], 11, 13)) = 10 * t.ITI
                    /\ (At(wire'[i], 13) = 1) = t.PriorWarningSound
                    /\ wire'[i + 1] = Frame(<<11, 0>>)]_vars

\* C36: a train setter called on a session with an open port with a value
\* that differs from the stored one leaves the page of the session at
\* "Timing" and writes four frames in this order: the page selection (7, 2),
\* the page read request (12, 0), the train set frame (11, 1, ...) and the
\* train read request (11, 0).
C36_PageThenTrain ==
    [][(/\ lastOp' = "PriorWarningSound"
        /\ objs[lastArg'[1]].s.port = "open"
        /\ objs[lastArg'[1]].s.train.PriorWarningSound # lastArg'[2]) =>
          /\ objs'[lastArg'[1]].s.page = "Timing"
          /\ Len(wire') = 4
          /\ wire'[1] = Frame(<<7, 2>>)
          /\ wire'[2] = Frame(<<12, 0>>)
          /\ Slice(wire'[3], 2, 4) = <<11, 1>>
          /\ wire'[4] = Frame(<<11, 0>>)]_vars

\* ---------------------------------------------------------------- properties of SpecQ

\* C10: closestVal returns a member of the set unchanged with deviation 0, and
\* applied to any of its results it returns that result with deviation 0.
C10_Idempotent ==
    /\ (q.stage >= 1 /\ q.val \in Members(q.set)) => (q.out.val = q.val /\ q.out.num = 0)
    /\ q.stage = 2 => (q.again.val = q.out.val /\ q.again.num = 0)

\* a request outside the set was moved to a member, and the member was quantized again
C10_Requantized ==
    /\ q.stage = 2
    /\ q.val \notin Members(q.set)
    /\ q.out.val \in Members(q.set)
    /\ q.out.num > 0
    /\ q.again.val = q.out.val

\* C11: the value closestVal returns is a member of the set, and no member of
\* the set is nearer to the request.
C11_Nearest ==
    q.stage >= 1 =>
        /\ q.out.val \in Members(q.set)
        /\ \A m \in Members(q.set) : Abs(q.out.val - q.val) <= Abs(m - q.val)

\* a request midway between two members was quantized to one of them
C11_Tie ==
    /\ q.stage >= 1
    /\ q.out.num > 0
    /\ \E m \in Members(q.set) : m # q.out.val /\ Abs(m - q.val) = q.out.num

\* ---------------------------------------------------------------- properties of SpecSets

\* C12: for every model, every mode and waveform legal for it and both values
\* of the extended-rate flag, each legal set is non-empty, strictly increasing
\* or strictly decreasing, and contains the construction-time default.
C12_LegalSets ==
    q.stage = 1 =>
        /\ Len(q.set) > 0
        /\ \/ \A i \in 1 .. Len(q.set) - 1 : q.set[i] < q.set[i + 1]
           \/ \A i \in 1 .. Len(q.set) - 1 : q.set[i] > q.set[i + 1]
        /\ \E i \in 1 .. Len(q.set) : q.set[i] = Default(q.field)

\* the rate set of an X100+Option in Twin mode, Monophasic, extended rates: its
\* integer part range(6, 1) is empty and the default 1.0 lies in the fractions
C12_RatesNoIntegers ==
    /\ q.stage = 1 /\ q.field = "RepRate"
    /\ q.Model = "X100+Option" /\ q.mode = "Twin" /\ q.waveform = "Monophasic" /\ q.ExRate
    /\ Len(q.set) = 50
    /\ q.set[10] = Default("RepRate")

\* C27 as stated: the IPI set of Twin or Dual mode is a subset of the IPI set
\* of the other modes (same waveform), and in every mode the set of the
\* Monophasic waveform lacks the smallest member of the set of the other
\* waveforms.
C27_TwinNarrower ==
    (q.stage = 1 /\ q.field = "IPI") =>
        /\ q.mode \in {"Twin", "Dual"} =>
              \A i \in 1 .. Len(q.set) :
                 \E k \in 1 .. Len(IPIs("Standard", q.waveform)) : IPIs("Standard", q.waveform)[k] = q.set[i]
        /\ q.waveform = "Monophasic" =>
              \A i \in 1 .. Len(q.set) :
                 q.set[i] # IPIs(q.mode, "Biphasic")[Len(IPIs(q.mode, "Biphasic"))]

\* C27, amended. In hundredths of a millisecond: outside Twin and Dual mode
\* the IPI set is, for every waveform, the 196 values 0.5 to 10 in steps of
\* 0.1, 10.5 to 20 in steps of 0.5 and 21 to 100 in steps of 1. In Twin and
\* Dual mode it starts at 1 (at 2 for Monophasic) instead of 0.5, holds the same
\* values from there up to 100, and holds in addition 110 to 500 in steps of
\* 10, 550 to 1000 in steps of 50 and 1100 to 3000 in steps of 100: 261 values
\* (251 for Monophasic), decreasing, so it is not a subset of the other set.
C27_IPISets ==
    (q.stage = 1 /\ q.field = "IPI") =>
        LET twin == q.mode \in {"Twin", "Dual"}
            low  == IF ~twin THEN 50 ELSE IF q.waveform = "Monophasic" THEN 200 ELSE 100
            Base(v) == \/ low <= v /\ v <= 1000 /\ v % 10 = 0
                       \/ 1050 <= v /\ v <= 2000 /\ v % 50 = 0
                       \/ 2100 <= v /\ v <= 10000 /\ v % 100 = 0
            Long(v) == \/ 11000 <= v /\ v <= 50000 /\ v % 1000 = 0
                       \/ 55000 <= v /\ v <= 100000 /\ v % 5000 = 0
                       \/ 110000 <= v /\ v <= 300000 /\ v % 10000 = 0
        IN  /\ \A i \in 1 .. Len(q.set) : Base(q.set[i]) \/ (twin /\ Long(q.set[i]))
            /\ \A i \in 1 .. Len(q.set) - 1 : q.set[i] > q.set[i + 1]
            /\ Len(q.set) = IF ~twin THEN 196 ELSE IF q.waveform = "Monophasic" THEN 251 ELSE 261
            /\ q.set[Len(q.set)] = low
            /\ q.set[1] = IF twin THEN 300000 ELSE 10000

\* the IPI set of Twin mode and the Monophasic waveform has been derived: 251
\* members from 3000 ms down to 2 ms
C27_TwinMonophasic ==
    /\ q.stage = 1 /\ q.field = "IPI" /\ q.mode = "Twin" /\ q.waveform = "Monophasic"
    /\ Len(q.set) = 251 /\ q.set[1] = 300000 /\ q.set[251] = 200

\* C38: for the model of the session and every mode and waveform, its own
\* included, the repetition rates with the extended-rate flag clear are all
\* among those with the flag set; both sets start at 0.1 and end at the same
\* rate; and every rate that only the set with the flag has is a multiple of
\* 0.1 that is not a whole number.
C38_ExtendedRates ==
    (q.stage = 1 /\ q.field = "RepRate") =>
        /\ q.set = RATEs(q.Model, q.mode, q.waveform, q.ExRate)
        /\ \A m \in {q.mode, "Standard", "Power", "Twin", "Dual"} :
              \A w \in 1 .. Len(WvForms) :
                 LET clear == RATEs(q.Model, m, WvForms[w], FALSE)
                     ext   == RATEs(q.Model, m, WvForms[w], TRUE)
                 IN  /\ \A i \in 1 .. Len(clear) : \E k \in 1 .. Len(ext) : ext[k] = clear[i]
                     /\ clear[1] = 10 /\ ext[1] = 10
                     /\ \A i \in 1 .. Len(clear) : clear[i] >= 10 /\ clear[i] <= clear[Len(clear)]
                     /\ \A k \in 1 .. Len(ext) : ext[k] >= 10 /\ ext[k] <= ext[Len(ext)]
                     /\ clear[Len(clear)] = ext[Len(ext)]
                     /\ \A k \in 1 .. Len(ext) :
                           (\A i \in 1 .. Len(clear) : clear[i] # ext[k]) =>
                              (ext[k] % 10 = 0 /\ ext[k] % Scale # 0)

\* the rates of an R30 with the extended-rate flag: 0.1 to 20.0 in steps of
\* 0.1, then 21 to 30; 15.5 is one of the 171 rates the flag adds to the 39
\* rates of the R30 without it
C38_R30Extended ==
    /\ q.stage = 1 /\ q.field = "RepRate" /\ q.Model = "R30" /\ q.ExRate
    /\ Len(q.set) = 210 /\ q.set[155] = 1550 /\ q.set[210] = 3000
    /\ Len(RATEs("R30", q.mode, q.waveform, FALSE)) = 39

\* ---------------------------------------------------------------- properties of SpecCodec

\* C13: the bytes _write produces for one message, undamaged, make the loop of
\* _read accept exactly one candidate, whose command id b[2] and payload
\* b[3:-2] are those of the message.
C13_RoundTrip ==
    (q.stage = 2 /\ Len(q.msgs) = 1 /\ q.damage = "none") =>
        /\ Len(q.got) = 1
        /\ <<At(q.got[1].b, 2)>> \o Slice(q.got[1].b, 3, Len(q.got[1].b) - 2) = q.msgs[1]

\* C14: every candidate the loop of _read accepts lies, with the length it
\* declares, inside the buffer, ends in 255 and carries its CRC8; when no
\* candidate is accepted the session is as it was.
C14_WholeFrameOnly ==
    q.stage = 2 =>
        /\ \A k \in 1 .. Len(q.got) :
              /\ q.got[k].at + At(q.buf, q.got[k].at + 1) + 4 <= Len(q.buf)
              /\ Valid(q.got[k].b)
        /\ Len(q.got) = 0 => tms = init(TRUE).s

\* C15: the candidates accepted in the concatenation of two frames are, in
\* order, those accepted in the first frame alone followed by those accepted
\* in the second frame alone.
C15_Concatenation ==
    (q.stage = 2 /\ Len(q.msgs) = 2 /\ q.damage = "none") =>
        [k \in 1 .. Len(q.got) |-> q.got[k].b] = [k \in 1 .. Len(q.each) |-> q.each[k].b]

\* ---------------------------------------------------------------- properties of SpecTrain

\* C16: after _read has applied a packet that carries its CRC8, has command id
\* 11, holds every byte the branch reads (b[4] to b[15]) and whose timing byte
\* has a low half below 4, the train object holds the values of the packet:
\* TimingControl the entry of _TCs at b[4]&15, RepRate and ITI the 16-bit
\* numbers at b[5:7] and b[11:13] over 10, PulsesInTrain and NumberOfTrains the
\* 16-bit numbers at b[7:9] and b[9:11], PriorWarningSound b[13]>0, RampUp
\* b[14]/100, RampUpTrains b[15]; _ExRate is bit 4 of b[4]. Numbers with a
\* fraction are in hundredths.
C16_TrainDecoded ==
    (lastOp = "_read" /\ Valid(lastArg) /\ At(lastArg, 2) = 11 /\ Len(lastArg) >= 16
     /\ At(lastArg, 4) % 16 < 4) =>
        /\ lastExc = "none"
        /\ tms.train.TimingControl = TCs[(At(lastArg, 4) % 16) + 1]
        /\ tms.train.RepRate * 10 = Scale * (256 * At(lastArg, 5) + At(lastArg, 6))
        /\ tms.train.PulsesInTrain = 256 * At(lastArg, 7) + At(lastArg, 8)
        /\ tms.train.NumberOfTrains = 256 * At(lastArg, 9) + At(lastArg, 10)
        /\ tms.train.ITI * 10 = Scale * (256 * At(lastArg, 11) + At(lastArg, 12))
        /\ tms.train.PriorWarningSound = (At(lastArg, 13) > 0)
        /\ tms.train.RampUp = At(lastArg, 14)
        /\ tms.train.RampUpTrains = At(lastArg, 15)
        /\ tms.ExRate = ((At(lastArg, 4) \div 16) % 2 = 1)

\* a report with timing byte 19 has been applied: "Ext Seq. Cont", extended
\* rate, 30 pps, 1000 pulses, 500 trains, ITI 300 s, ramp up 0.7 over 1 train
C16_Decoded ==
    /\ lastOp = "_read" /\ lastExc = "none" /\ At(lastArg, 2) = 11 /\ At(lastArg, 4) = 19
    /\ tms.train = [TimingControl |-> "Ext Seq. Cont", RepRate |-> 3000, PulsesInTrain |-> 1000,
                    NumberOfTrains |-> 500, ITI |-> 30000, PriorWarningSound |-> TRUE,
                    RampUp |-> 70, RampUpTrains |-> 1]
    /\ tms.ExRate

\* C17: while the port is open the worker thread is alive, whatever packets
\* _read has been given.
C17_ListenerSurvives == tms.port = "open" => tms.worker

\* C18: with no open port (never connected, or after disconnect()) a train
\* setter called with a legal argument completes without an exception, and the
\* TimingControl or PriorWarningSound it was given is the stored one.
C18_SilentWithoutPort ==
    tms.port # "open" =>
        /\ (lastOp = "TimingControl" /\ lastArg \in {"Sequence", "External Trig"}) =>
               (lastExc = "none" /\ tms.train.TimingControl = lastArg)
        /\ lastOp = "PriorWarningSound" =>
               (lastExc = "none" /\ tms.train.PriorWarningSound = lastArg)
        /\ lastOp = "RepRate" => lastExc = "none"

\* ---------------------------------------------------------------- properties of SpecRace

\* C20: the command-9 set frame that a completed waveform setter has written
\* carries, in the waveform entry b9[3], the index of the waveform the caller
\* asked for.
C20_FrameCarriesRequest ==
    (lastOp = "waveform" /\ lastExc = "none" /\ Len(wire) > 0) =>
        (Slice(wire[1], 2, 4) = <<9, 1>> => At(wire[1], 7) = index(WvForms, lastArg))

\* ---------------------------------------------------------------- properties of SpecFire

\* C21: when a fire method has written its fire frame (command 3 or 4), the
\* enabled flag of the session is true.
C21_FiredWhileEnabled ==
    (lastOp \in FireMethods /\ \E i \in 1 .. Len(wire) : wire[i] \in {Frame(<<3>>), Frame(<<4>>)}) =>
        tms.enabled

\* ---------------------------------------------------------------- properties of SpecPage

\* C23: when the page setter has returned without its warning, the page of
\* the session is the requested one, whatever the device has reported since
\* the request.
C23_FailureWarned == q.pc = "silent" => tms.page = q.arg

\* ---------------------------------------------------------------- properties of SpecDelays

\* C26: a call of the delays setter that is not cut short by its first line
\* does not fail, stores for each of the three components the nearest member
\* of that component's legal set, writes on an open port the command-10 set
\* frame carrying the three stored values followed by the read request (10, 0),
\* and prints a warning whenever the relative deviation of a component exceeds
\* 0.001.
C26_DelaysSnapped ==
    [][(lastOp' = "delays" /\ ~(lastArg'.list /\ tms.delays = lastArg'.items)) =>
          /\ lastExc' = "none"
          /\ tms'.delays = <<closestVal(lastArg'.items[1], DelayInputs).val,
                             closestVal(lastArg'.items[2], DelayOutputs).val,
                             closestVal(lastArg'.items[3], ChargeDelays).val>>
          /\ tms.port = "open" =>
                /\ Len(wire') = 2
                /\ Slice(wire'[1], 2, 4) = <<10, 1>>
                /\ 10 * by2int(Slice(wire'[1], 4, 6)) = tms'.delays[1]
                /\ 10 * by2intSigned(Slice(wire'[1], 6, 8)) = tms'.delays[2]
                /\ Scale * by2int(Slice(wire'[1], 8, 10)) = tms'.delays[3]
                /\ wire'[2] = Frame(<<10, 0>>)
          /\ (\/ Deviates(closestVal(lastArg'.items[1], DelayInputs))
              \/ Deviates(closestVal(lastArg'.items[2], DelayOutputs))
              \/ Deviates(closestVal(lastArg'.items[3], ChargeDelays))) => printed' # << >>]_vars

\* ---------------------------------------------------------------- properties of SpecPort

\* C28: once the device has delivered all its bytes and fewer than 8 are left
\* waiting, every report it sent has been applied: the session is the one
\* that a single read of the whole stream gives, however the bytes were
\* spread over the read cycles.
C28_TailKept ==
    (q.rest = << >> /\ Len(q.waiting) <= 7 /\ tms.worker) => tms = poll(init(TRUE).s, q.sent).s

\* C29: the session changes, or bytes leave the input buffer, only in the
\* worker's second poll and only when it returns the count of the first poll
\* and that count is above 7; a second poll with another count, or with a
\* count of 7 or less, changes neither the session nor the input buffer.
C29_DrainWhenQuiescent ==
    [][/\ (tms' # tms \/ Len(q'.waiting) < Len(q.waiting)) =>
             /\ q.pc = "poll1" /\ lastOp' = "_read"
             /\ q.n0 = Len(q.waiting) /\ Len(q.waiting) > 7
       /\ (q.pc = "poll1" /\ q'.pc = "poll0" /\ (q.n0 # Len(q.waiting) \/ Len(q.waiting) <= 7)) =>
             (tms' = tms /\ q'.waiting = q.waiting /\ lastOp' = "polls")]_vars

\* the second poll found more than 7 bytes, but not as many as the first:
\* nothing was read, the bytes are still waiting and the session is untouched
C29_NotQuiescent ==
    /\ lastOp = "polls" /\ lastArg[1] # lastArg[2] /\ lastArg[2] > 7
    /\ Len(q.waiting) = lastArg[2]
    /\ tms = init(TRUE).s

\* ---------------------------------------------------------------- properties of SpecInbound

\* C32 as stated: a report with one of the commands 1, 2, 3, 4, 10, 11, 12 that
\* the listener applies changes no field outside the subset named for the
\* command: amplitude; didt; temperature and coil type; the MEP snapshot; the
\* delays; the train fields and the extended-rate flag; page and stim count.
C32_OnlyNamedSubset ==
    [][(lastOp' = "_read" /\ lastExc' = "none") =>
          tms = CASE At(lastArg', 2) = 1 -> [tms' EXCEPT !.amplitude = tms.amplitude]
                  [] At(lastArg', 2) = 2 -> [tms' EXCEPT !.didt = tms.didt]
                  [] At(lastArg', 2) = 3 -> [tms' EXCEPT !.temperature = tms.temperature,
                                                         !.info.CoilType = tms.info.CoilType]
                  [] At(lastArg', 2) = 4 -> [tms' EXCEPT !.MEP = tms.MEP]
                  [] At(lastArg', 2) = 10 -> [tms' EXCEPT !.delays = tms.delays]
                  [] At(lastArg', 2) = 11 -> [tms' EXCEPT !.train = tms.train, !.ExRate = tms.ExRate]
                  [] At(lastArg', 2) = 12 -> [tms' EXCEPT !.page = tms.page,
                                                          !.info.stimCount = tms.info.stimCount]
                  [] OTHER -> tms']_vars

\* C32, amended: a report with the command 4, 10, 11 or 12 changes no field
\* outside its subset (the MEP snapshot; the delays; the train fields and the
\* extended-rate flag; page and stim count). A report with the command 1, 2 or
\* 3 changes its subset (amplitude; didt; temperature and coil type) and also
\* stores mode, waveform and the enabled flag from the status byte b[5], and
\* changes nothing else.
C32_SubsetAndStatus ==
    [][(lastOp' = "_read" /\ lastExc' = "none") =>
          IF At(lastArg', 2) \in {1, 2, 3}
          THEN /\ tms'.mode = MODEs(tms.Model)[bit2int(At(lastArg', 5), 0, 2)]
               /\ tms'.waveform = At(WvForms, bit2int(At(lastArg', 5), 2, 2))
               /\ tms'.enabled = (bit2int(At(lastArg', 5), 4, 1) > 0)
               /\ [tms EXCEPT !.mode = tms'.mode, !.waveform = tms'.waveform, !.enabled = tms'.enabled]
                     = CASE At(lastArg', 2) = 1 -> [tms' EXCEPT !.amplitude = tms.amplitude]
                         [] At(lastArg', 2) = 2 -> [tms' EXCEPT !.didt = tms.didt]
                         [] OTHER -> [tms' EXCEPT !.temperature = tms.temperature,
                                                  !.info.CoilType = tms.info.CoilType]
          ELSE tms = CASE At(lastArg', 2) = 4 -> [tms' EXCEPT !.MEP = tms.MEP]
                       [] At(lastArg', 2) = 10 -> [tms' EXCEPT !.delays = tms.delays]
                       [] At(lastArg', 2) = 11 -> [tms' EXCEPT !.train = tms.train, !.ExRate = tms.ExRate]
                       [] At(lastArg', 2) = 12 -> [tms' EXCEPT !.page = tms.page,
                                                               !.info.stimCount = tms.info.stimCount]
                       [] OTHER -> tms']_vars

\* a didt report has been applied on a session that an earlier report had
\* enabled: didt is the reported pair and the status byte of the didt report
\* has cleared the enabled flag again
C32_StatusFromDidtReport ==
    /\ lastOp = "_read" /\ lastExc = "none" /\ At(lastArg, 2) = 2
    /\ tms.didt = <<0, 0>> /\ tms.amplitude = <<PyInt(50), PyInt(0)>>
    /\ ~tms.enabled /\ tms.waveform = "Biphasic"
    /\ tms.page = "Timing" /\ tms.delays # <<0, 0, 0>> /\ tms.MEP.maxTime = 20

\* ---------------------------------------------------------------- properties of SpecSync

\* C33: resync() changes no field of the session and of its train object and,
\* on an open port, writes exactly the five read requests (5), (9,0), (10,0),
\* (11,0), (12,0) in this order. During a construction it is the last
\* statement: it runs once, with the port open and after the worker thread
\* has been started, and no other statement of the construction writes a read request;
\* a construction that finds no endpoint sends none.
C33_ResyncFrames ==
    [][/\ lastOp' = "resync" =>
             /\ lastExc' = "none"
             /\ tms' = tms
             /\ tms.port = "open" =>
                   wire' = <<Frame(<<5>>), Frame(<<9, 0>>), Frame(<<10, 0>>), Frame(<<11, 0>>),
                             Frame(<<12, 0>>)>>
             /\ lastArg' = "construction" =>
                   (q.pc = "resync" /\ q'.pc = "done" /\ tms.port = "open" /\ q.started)
       /\ (lastOp' = "TMS" /\ q.pc # "done") =>
             /\ \A i \in 1 .. Len(wire') : wire'[i] = Probe
             /\ q'.pc = "done" => (tms'.port = "none" /\ ~tms'.worker)]_vars

\* resync() was called on a connected session whose state the device had
\* changed, and its five requests are on the wire
C33_ResyncOnDemand ==
    /\ lastOp = "resync" /\ lastArg = "demand"
    /\ tms.port = "open" /\ tms.worker /\ tms.enabled /\ tms.page = "Timing"
    /\ Len(wire) = 5 /\ wire[1] = Frame(<<5>>) /\ wire[5] = Frame(<<12, 0>>)

\* ---------------------------------------------------------------- properties of SpecClose

\* C34: disconnect() on a session leaves its port closed (no port where it had
\* none), changes no other field of it and clears TMS._INS; a TMS() called
\* while TMS._INS is clear builds a new object with the state of a new
\* session and registers it; _read runs for a session only while its worker
\* thread runs; and the worker thread of a session whose port is closed
\* eventually ends.
C34_Disconnected ==
    /\ [][/\ lastOp' = "disconnect" =>
                /\ objs'[lastArg'].s.port # "open"
                /\ objs'[lastArg'].s = [objs[lastArg'].s EXCEPT !.port = objs'[lastArg'].s.port]
                /\ INS' = 0
          /\ (lastOp' = "TMS" /\ INS = 0) =>
                /\ objs[lastRet'].state = "unborn"
                /\ objs'[lastRet'].state = "alive"
                /\ objs'[lastRet'].s = init(lastArg'.found).s
                /\ INS' = lastRet'
          /\ lastOp' = "_read" => objs[lastArg'[1]].s.worker
          /\ \A o \in Objects : (~objs[o].s.worker /\ objs[o].state # "unborn") => ~objs'[o].s.worker]_vars
    /\ \A o \in Objects : (objs[o].s.port = "closed") ~> ~objs[o].s.worker

\* a connected session was disconnected while its worker thread was about to
\* call _read, the thread has ended, and the next TMS() has built a second
\* connected session
C34_FreshAfterDisconnect ==
    /\ objs[1].s.port = "closed" /\ ~objs[1].s.worker /\ objs[1].s.enabled
    /\ objs[2].state = "alive" /\ objs[2].s.port = "open" /\ objs[2].s.worker
    /\ INS = 2 /\ lastOp = "TMS"

\* ---------------------------------------------------------------- properties of SpecDrain

\* C37: when the input buffer holds a complete checksum-valid report, the
\* device sends nothing more and the port is open, then eventually the port
\* is closed or the buffer has been drained by a _read that ended without an
\* exception.
C37_EventuallyApplied ==
    (accepted(q.waiting, 0) # << >> /\ q.rest = << >> /\ tms.port = "open")
        ~> (tms.port # "open" \/ (q.waiting = << >> /\ lastOp = "_read" /\ lastExc = "none"))

====
